---- MODULE Spec2Model ----
(***************************************************************************)
(* ArchonAI repository analysis pipeline (backend/app/core/analyzer.py):   *)
(* RepositoryAnalyzer.analyze() and its layers, run over a bounded file    *)
(* tree, and the Celery task that drives it (backend/app/worker/tasks.py). *)
(*                                                                         *)
(* Python strings that the code tests with `in`, endswith or startswith    *)
(* are sequences of one-character strings, so that those tests are         *)
(* computed, not looked up.                                                *)
(***************************************************************************)
EXTENDS Integers, Sequences, FiniteSets, TLC

(***************************************************************************)
(* Bounds of the model.                                                    *)
(***************************************************************************)
MaxFiles == 2
MaxScoreFindings == 2
MaxLines == 8
MaxSecretFiles == 1
MaxPenaltyFiles == 3
MaxFunctions == 2
MaxOtherLines == 2
MaxDomains == 4
MaxIsolationFiles == 3
MaxFlaggedFunctions == 20
MaxNestedFunctions == 3
MaxRootDirs == 12
MaxGraphFiles == 3
MaxGraphNodes == 52
MaxRelativeFiles == 3

(***************************************************************************)
(* str operations                                                          *)
(***************************************************************************)
\* Python `sub in s` for str.
Contains(sub, s) ==
    \E i \in 0..(Len(s) - Len(sub)) : SubSeq(s, i + 1, i + Len(sub)) = sub

\* Python s.endswith(suf).
EndsWith(s, suf) ==
    /\ Len(suf) <= Len(s)
    /\ SubSeq(s, Len(s) - Len(suf) + 1, Len(s)) = suf

\* Python s.startswith(pre).
StartsWith(s, pre) ==
    /\ Len(pre) <= Len(s)
    /\ SubSeq(s, 1, Len(pre)) = pre

\* Python s.endswith((suf1, suf2, ...)).
EndsWithAny(s, sufs) == \E suf \in sufs : EndsWith(s, suf)

RECURSIVE JoinPath(_, _)
\* os.path.join(base, seg1, seg2, ...).
JoinPath(base, segs) ==
    IF segs = <<>> THEN base
    ELSE JoinPath(base \o <<"/">> \o Head(segs), Tail(segs))

RECURSIVE RelJoin(_)
\* "seg1/seg2/.../name" for a non-empty sequence of segments.
RelJoin(segs) ==
    IF Len(segs) = 1 THEN Head(segs)
    ELSE Head(segs) \o <<"/">> \o RelJoin(Tail(segs))

(***************************************************************************)
(* Names the code compares paths and file names with.                      *)
(***************************************************************************)
s_git == <<".", "g", "i", "t">>
s_node_modules == <<"n", "o", "d", "e", "_", "m", "o", "d", "u", "l", "e", "s">>
s_pycache == <<"_", "_", "p", "y", "c", "a", "c", "h", "e", "_", "_">>
s_venv == <<"v", "e", "n", "v">>
s_dotvenv == <<".", "v", "e", "n", "v">>
s_github == <<".", "g", "i", "t", "h", "u", "b">>
s_k8s == <<"k", "8", "s">>

x_py == <<".", "p", "y">>
x_js == <<".", "j", "s">>
x_jsx == <<".", "j", "s", "x">>
x_ts == <<".", "t", "s">>
x_tsx == <<".", "t", "s", "x">>
x_php == <<".", "p", "h", "p">>
x_rb == <<".", "r", "b">>
x_go == <<".", "g", "o">>
x_rs == <<".", "r", "s">>
x_java == <<".", "j", "a", "v", "a">>
x_tf == <<".", "t", "f">>
x_env == <<".", "e", "n", "v">>
x_yml == <<".", "y", "m", "l">>
x_json == <<".", "j", "s", "o", "n">>
x_txt == <<".", "t", "x", "t">>
x_conf == <<".", "c", "o", "n", "f">>
x_test_go == <<"_", "t", "e", "s", "t", ".", "g", "o">>
x_spec_ts == <<".", "s", "p", "e", "c", ".", "t", "s">>
x_spec_js == <<".", "s", "p", "e", "c", ".", "j", "s">>

f_nginx_conf == <<"n", "g", "i", "n", "x", ".", "c", "o", "n", "f">>
f_default_conf == <<"d", "e", "f", "a", "u", "l", "t", ".", "c", "o", "n", "f">>
f_httpd_conf == <<"h", "t", "t", "p", "d", ".", "c", "o", "n", "f">>
f_htaccess == <<".", "h", "t", "a", "c", "c", "e", "s", "s">>
f_requirements_txt == <<"r", "e", "q", "u", "i", "r", "e", "m", "e", "n", "t", "s", ".", "t", "x", "t">>
f_pyproject_toml == <<"p", "y", "p", "r", "o", "j", "e", "c", "t", ".", "t", "o", "m", "l">>
f_package_json == <<"p", "a", "c", "k", "a", "g", "e", ".", "j", "s", "o", "n">>
f_README_md == <<"R", "E", "A", "D", "M", "E", ".", "m", "d">>
f_gitignore == <<".", "g", "i", "t", "i", "g", "n", "o", "r", "e">>
f_Dockerfile == <<"D", "o", "c", "k", "e", "r", "f", "i", "l", "e">>
f_docker_compose_yml == <<"d", "o", "c", "k", "e", "r", "-", "c", "o", "m", "p", "o", "s", "e", ".", "y", "m", "l">>
f_gitlab_ci_yml == <<".", "g", "i", "t", "l", "a", "b", "-", "c", "i", ".", "y", "m", "l">>
f_deployment_yaml == <<"d", "e", "p", "l", "o", "y", "m", "e", "n", "t", ".", "y", "a", "m", "l">>
f_k8s_yaml == <<"k", "8", "s", ".", "y", "a", "m", "l">>
f_openapi_yaml == <<"o", "p", "e", "n", "a", "p", "i", ".", "y", "a", "m", "l">>
f_swagger_json == <<"s", "w", "a", "g", "g", "e", "r", ".", "j", "s", "o", "n">>
f_prettier_config_js == <<"p", "r", "e", "t", "t", "i", "e", "r", ".", "c", "o", "n", "f", "i", "g", ".", "j", "s">>
p_eslintrc == <<".", "e", "s", "l", "i", "n", "t", "r", "c">>
p_test == <<"t", "e", "s", "t">>

\* The directory the task clones into: f"/app/repos/{repo_id}".
RepoPath == <<"/", "a", "p", "p", "/", "r", "e", "p", "o", "s", "/", "7", "f">>

(***************************************************************************)
(* The file tree.  `tree` is the sequence of the files in os.walk order;   *)
(* a file is                                                               *)
(*   dir      the directory names from the root to the file                *)
(*   name     the file name                                                *)
(*   readable FALSE when open() raises                                     *)
(*   hits     the regex / substring matches of its text: [pat, end], the   *)
(*            pattern (named by its label or literal) and the offset just  *)
(*            past the match                                               *)
(*   domains  the matches of the SecOps domain pattern, in text order      *)
(*   lines    the raw text lines                                           *)
(***************************************************************************)
\* The `root` string os.walk yields for a directory.
WalkRoot(dir) == JoinPath(RepoPath, dir)

\* os.path.relpath(os.path.join(root, file), self.repo_path)
RelPath(f) == RelJoin(f.dir \o <<f.name>>)

\* `any(x in root for x in [...])`: the walk loop's `continue`.
Skipped(excluded, dir) == \E x \in excluded : Contains(x, WalkRoot(dir))

Exclude_layer1 == {s_git, s_node_modules, s_pycache, s_venv, s_dotvenv}
Exclude_layer5 == {s_git, s_node_modules, s_pycache}
Exclude_layer7 == {s_git, s_node_modules, s_pycache, s_venv}
Exclude_layer8 == {s_git, s_node_modules}
Exclude_layer9 == {s_git, s_node_modules, s_pycache, s_venv}
Exclude_layer10 == {s_git, s_node_modules, s_pycache, s_venv}
Exclude_layer11 == {s_git, s_node_modules}

\* f.read(5000) in layers 1 and 5, f.read(10000) in layers 7 and 11.
ReadLimit5000 == 5000
ReadLimit10000 == 10000

\* The search on the text of f.read(): the whole file, whatever the limit.
MatchesWithinWholeFile(f, pat, limit) == \E h \in f.hits : h.pat = pat

\* re.search(pattern, content) / `literal in content` on the first `limit`
\* characters of the file.
MatchesWithin(f, pat, limit) == \E h \in f.hits : h.pat = pat /\ h.end <= limit

\* The same on the whole text (f.read()).
MatchesAnywhere(f, pat) == \E h \in f.hits : h.pat = pat

(***************************************************************************)
(* Layer 5: secrets, SAST and vulnerable dependencies                      *)
(* (_run_layer5_security_scan).  A pattern is named by its label.          *)
(***************************************************************************)
secret_patterns ==
    <<"AWS Access Key", "GitHub Token", "Private Key", "Stripe API Key", "Database URL">>

sast_patterns ==
    <<"Insecure eval()", "Insecure exec()", "Shell Injection", "Potential SQL Injection">>

vuln_sigs ==
    <<"Insecure requests version", "Insecure flask version",
      "Insecure express version", "Insecure lodash version">>

Layer5Extensions ==
    {x_py, x_js, x_ts, x_php, x_rb, x_go, x_tf, x_env, x_yml, x_json, x_txt}

SastExtensions == {x_py, x_js, x_ts, x_php, x_rb}

\* One entry of self.security_findings.  `description` is an f-string of
\* the label (of the domain, for a SecOps finding): it keeps that argument.
Finding(type, severity, label, file, description) ==
    [type |-> type, severity |-> severity, label |-> label, file |-> file,
     description |-> description]

\* One finding per match (re.finditer) instead of one per pattern: a
\* pattern that matches again is reported again.
PatternFindingsPerMatch(f, patterns, type, severity) ==
    LET found == SelectSeq(patterns, LAMBDA label : MatchesWithin(f, label, ReadLimit5000))
        again == SelectSeq(found, LAMBDA label :
                     Cardinality({h \in f.hits : h.pat = label /\ h.end <= ReadLimit5000}) > 1)
        all == found \o again
    IN  [i \in 1..Len(all) |-> Finding(type, severity, all[i], RelPath(f), all[i])]

\* The findings one pattern table adds for one file: one per pattern that
\* re.search finds in the text read, in the table's order.
PatternFindings(f, patterns, type, severity) ==
    LET found == SelectSeq(patterns, LAMBDA label : MatchesWithin(f, label, ReadLimit5000))
    IN  [i \in 1..Len(found) |->
            Finding(type, severity, found[i], RelPath(f), found[i])]

\* The loop body with the SAST block moved above the secrets block.
Layer5FileSastFirst(f) ==
    IF Skipped(Exclude_layer5, f.dir) THEN <<>>
    ELSE IF ~EndsWithAny(f.name, Layer5Extensions) THEN <<>>
    ELSE IF ~f.readable THEN <<>>
    ELSE (IF EndsWithAny(f.name, SastExtensions)
          THEN PatternFindings(f, sast_patterns, "Vulnerability (SAST)", "HIGH")
          ELSE <<>>)
         \o PatternFindings(f, secret_patterns, "Secret Leak", "CRITICAL")
         \o (IF f.name \in {f_requirements_txt, f_package_json}
             THEN PatternFindings(f, vuln_sigs, "Vulnerable Dependency", "HIGH")
             ELSE <<>>)

\* The body of the `for file in files` loop of layer 5 for one file.
Layer5File(f) ==
    IF Skipped(Exclude_layer5, f.dir) THEN <<>>
    ELSE IF ~EndsWithAny(f.name, Layer5Extensions) THEN <<>>
    ELSE IF ~f.readable THEN <<>>
    ELSE PatternFindings(f, secret_patterns, "Secret Leak", "CRITICAL")
         \o (IF EndsWithAny(f.name, SastExtensions)
             THEN PatternFindings(f, sast_patterns, "Vulnerability (SAST)", "HIGH")
             ELSE <<>>)
         \o (IF f.name \in {f_requirements_txt, f_package_json}
             THEN PatternFindings(f, vuln_sigs, "Vulnerable Dependency", "HIGH")
             ELSE <<>>)

RECURSIVE Layer5Scan(_)
\* What layer 5 appends to self.security_findings over the whole walk.
Layer5Scan(files) ==
    IF files = <<>> THEN <<>>
    ELSE Layer5File(Head(files)) \o Layer5Scan(Tail(files))

(***************************************************************************)
(* Layer 8: reverse-proxy configuration audit                              *)
(* (_run_layer8_infra_deep_audit).                                         *)
(***************************************************************************)
GzipRoadmapEntry == [title |-> "Enable Gzip Compression"]

IsNginxConf(f) == f.name \in {f_nginx_conf, f_default_conf} \/ EndsWith(f.name, x_conf)

IsApacheConf(f) == f.name \in {f_htaccess, f_httpd_conf}

\* The findings the Nginx and Apache audits add for one file.
Layer8File(f) ==
    IF Skipped(Exclude_layer8, f.dir) \/ ~f.readable THEN <<>>
    ELSE (IF IsNginxConf(f)
          THEN (IF ~MatchesAnywhere(f, "add_header Strict-Transport-Security")
                THEN <<Finding("Infrastructure Gap", "MEDIUM", "Missing HSTS",
                               RelPath(f), "Missing HSTS")>>
                ELSE <<>>)
               \o (IF ~MatchesAnywhere(f, "add_header Content-Security-Policy")
                   THEN <<Finding("Infrastructure Gap", "MEDIUM", "Missing CSP",
                                  RelPath(f), "Missing CSP")>>
                   ELSE <<>>)
               \o (IF MatchesAnywhere(f, "ssl_protocols TLSv1")
                   THEN <<Finding("Security Risk", "HIGH", "Legacy TLS Protocol",
                                  RelPath(f), "Legacy TLS Protocol")>>
                   ELSE <<>>)
          ELSE <<>>)
         \o (IF IsApacheConf(f)
                /\ ~MatchesAnywhere(f, "Header set Strict-Transport-Security")
             THEN <<Finding("Infrastructure Gap", "MEDIUM", "Missing HSTS (Apache)",
                            RelPath(f), "Missing HSTS (Apache)")>>
             ELSE <<>>)

\* The roadmap entries the Nginx audit adds for one file.
Layer8FileRoadmap(f) ==
    IF Skipped(Exclude_layer8, f.dir) \/ ~f.readable THEN <<>>
    ELSE IF IsNginxConf(f) /\ ~MatchesAnywhere(f, "gzip on") THEN <<GzipRoadmapEntry>>
    ELSE <<>>

RECURSIVE Layer8Audit(_)
Layer8Audit(files) ==
    IF files = <<>> THEN <<>>
    ELSE Layer8File(Head(files)) \o Layer8Audit(Tail(files))

RECURSIVE Layer8Roadmap(_)
Layer8Roadmap(files) ==
    IF files = <<>> THEN <<>>
    ELSE Layer8FileRoadmap(Head(files)) \o Layer8Roadmap(Tail(files))

(***************************************************************************)
(* Layer 11: SecOps audit (_run_layer11_secops_audit).                     *)
(***************************************************************************)
d_github_com == <<"g", "i", "t", "h", "u", "b", ".", "c", "o", "m">>
d_pypi_org == <<"p", "y", "p", "i", ".", "o", "r", "g">>
d_npmjs_com == <<"n", "p", "m", "j", "s", ".", "c", "o", "m">>
d_localhost == <<"l", "o", "c", "a", "l", "h", "o", "s", "t">>
d_127_0_0_1 == <<"1", "2", "7", ".", "0", ".", "0", ".", "1">>
d_google_com == <<"g", "o", "o", "g", "l", "e", ".", "c", "o", "m">>
d_microsoft_com == <<"m", "i", "c", "r", "o", "s", "o", "f", "t", ".", "c", "o", "m">>
d_apple_com == <<"a", "p", "p", "l", "e", ".", "c", "o", "m">>

exempt_domains ==
    {d_github_com, d_pypi_org, d_npmjs_com, d_localhost, d_127_0_0_1,
     d_google_com, d_microsoft_com, d_apple_com}

Layer11Extensions == {x_py, x_env, x_conf, x_yml, x_json}

\* `list(domains_scanned)[:3]`
ProbeLimit == 3

\* The `file` of a SecOps finding: "Network Audit".
s_Network_Audit ==
    <<"N", "e", "t", "w", "o", "r", "k", " ", "A", "u", "d", "i", "t">>

\* The domains one file adds to domains_scanned.
Layer11FileDomains(f) ==
    IF Skipped(Exclude_layer11, f.dir) THEN {}
    ELSE IF ~EndsWithAny(f.name, Layer11Extensions) THEN {}
    ELSE IF ~f.readable THEN {}
    ELSE {f.domains[i].text : i \in
            {j \in DOMAIN f.domains :
                /\ f.domains[j].end <= ReadLimit10000
                /\ ~\E ex \in exempt_domains : Contains(ex, f.domains[j].text)}}

\* domains_scanned after the walk.
DomainsScanned(files) == UNION {Layer11FileDomains(files[i]) : i \in DOMAIN files}

Min(a, b) == IF a < b THEN a ELSE b

\* `list(domains_scanned)` without the slice: every domain is probed.
ProbeListsUncapped(ds) ==
    LET n == Cardinality(ds)
    IN  {s \in [1..n -> ds] : \A i, j \in 1..n : i # j => s[i] # s[j]}

\* The values `list(domains_scanned)[:3]` can take: a set lists its members
\* in hash order, so any ProbeLimit of them, in any order.
ProbeLists(ds) ==
    LET n == Min(ProbeLimit, Cardinality(ds))
    IN  {s \in [1..n -> ds] : \A i, j \in 1..n : i # j => s[i] # s[j]}

\* What one TLS probe can end in: an exception anywhere in the try block
\* (connect, handshake, certificate verification, strptime), a certificate
\* with 30 days or more left, or one with fewer.  The context is
\* ssl.create_default_context(), which requires and verifies the peer's
\* certificate, so after a handshake that did not raise getpeercert() is
\* the decoded certificate with its notAfter: `if cert` and
\* `if not_after_str` hold.
ProbeOutcomes == {"exception", "valid", "expiring"}

\* The findings of the probes, in probe order.
Layer11Findings(probed, outcome) ==
    LET exp == SelectSeq(probed, LAMBDA d : outcome[d] = "expiring")
    IN  [i \in 1..Len(exp) |->
            Finding("SecOps Risk", "HIGH", "SSL Certificate Expiring",
                    s_Network_Audit, exp[i])]

\* The loop with the try block around it instead of inside it: the first
\* probe that raises gets its entry and ends the loop.
Layer11DomainFindingsUntilFailure(probed, outcome) ==
    LET failed == {i \in DOMAIN probed : outcome[probed[i]] = "exception"}
        last == IF failed = {} THEN Len(probed)
                ELSE CHOOSE i \in failed : \A j \in failed : i <= j
    IN  [i \in 1..last |->
            [domain |-> probed[i],
             status |-> IF outcome[probed[i]] = "exception"
                        THEN "Unreachable/Private" ELSE "Healthy"]]

\* domain_findings, in probe order.
Layer11DomainFindings(probed, outcome) ==
    [i \in 1..Len(probed) |->
        [domain |-> probed[i],
         status |-> IF outcome[probed[i]] = "exception"
                    THEN "Unreachable/Private" ELSE "Healthy"]]

Layer11Results(probed, outcome) ==
    LET domain_findings == Layer11DomainFindings(probed, outcome)
    IN  [monitored_domains |-> domain_findings,
         dns_health |-> "Heuristic Audit Passive",
         tls_compliance |-> IF domain_findings # <<>> THEN "Verified" ELSE "N/A"]

(***************************************************************************)
(* Rounding: round(num / den, 2) as an integer number of hundredths.       *)
(* Python rounds the exact value of the float to the nearest hundredth,    *)
(* a tie to the even one.                                                  *)
(***************************************************************************)
RoundHundredths(num, den) ==
    LET scaled == num * 100
        q == scaled \div den
        r == scaled % den
    IN  IF 2 * r < den THEN q
        ELSE IF 2 * r > den THEN q + 1
        ELSE IF q % 2 = 0 THEN q ELSE q + 1

RECURSIVE SumSeq(_)
SumSeq(s) == IF s = <<>> THEN 0 ELSE Head(s) + SumSeq(Tail(s))

\* Python s[:n]
Take(s, n) == SubSeq(s, 1, Min(n, Len(s)))

Range(s) == {s[i] : i \in DOMAIN s}

Reverse(s) == [i \in 1..Len(s) |-> s[Len(s) + 1 - i]]

RECURSIVE Enumerate(_)
\* The members of a set, one after the other.
Enumerate(S) ==
    IF S = {} THEN <<>>
    ELSE LET x == CHOOSE y \in S : TRUE IN <<x>> \o Enumerate(S \ {x})

\* list(a_set) of strings: the members in the order their hashes give.  str
\* hashes are salted per interpreter process (PYTHONHASHSEED), so the order
\* is one of the process's; two processes' orders are modelled.
HashOrders == {"forward", "reverse"}

ListOfSet(S, order) == IF order = "forward" THEN Enumerate(S) ELSE Reverse(Enumerate(S))

(***************************************************************************)
(* Layer 9: cyclomatic complexity (_run_layer9_complexity_analysis).       *)
(* A Python file's `ast` is [ok, funcs]: ok is FALSE when ast.parse        *)
(* raises; funcs lists the FunctionDef / AsyncFunctionDef nodes in         *)
(* ast.walk (breadth-first) order, each with its name, the index of the    *)
(* function that encloses it (0 for none) and `body`, the kinds of the     *)
(* nodes of its subtree that lie in no nested function.                    *)
(***************************************************************************)
DecisionNodes == {"If", "For", "While", "ExceptHandler", "With", "And", "Or", "Assert"}

\* j is i or a function nested (at any depth) in i.
RECURSIVE InSubtree(_, _, _)
InSubtree(funcs, i, j) ==
    \/ j = i
    \/ /\ funcs[j].parent # 0
       /\ InSubtree(funcs, i, funcs[j].parent)

CountDecisions(body) == Cardinality({k \in DOMAIN body : body[k] \in DecisionNodes})

\* The inner loop stopping at nested function definitions: a function's
\* count leaves out the nodes of the functions defined inside it.
ComplexityOwnBody(funcs, i) == 1 + CountDecisions(funcs[i].body)

\* `complexity` after the inner ast.walk(node) loop for function i.
Complexity(funcs, i) ==
    1 + SumSeq([j \in 1..Len(funcs) |->
                  IF InSubtree(funcs, i, j) THEN CountDecisions(funcs[j].body) ELSE 0])

\* The outer loop visiting top-level functions only: a function defined
\* inside another one is not scanned on its own.
Layer9FileTopLevel(f) ==
    IF Skipped(Exclude_layer9, f.dir) THEN <<>>
    ELSE IF ~EndsWith(f.name, x_py) THEN <<>>
    ELSE IF ~f.readable \/ ~f.ast.ok THEN <<>>
    ELSE LET top == SelectSeq([i \in 1..Len(f.ast.funcs) |-> i],
                              LAMBDA i : f.ast.funcs[i].parent = 0)
         IN  [k \in 1..Len(top) |->
                 [file |-> RelPath(f), function |-> f.ast.funcs[top[k]].name,
                  complexity |-> Complexity(f.ast.funcs, top[k])]]

\* The functions layer 9 scans in one file, each with its complexity.
Layer9File(f) ==
    IF Skipped(Exclude_layer9, f.dir) THEN <<>>
    ELSE IF ~EndsWith(f.name, x_py) THEN <<>>
    ELSE IF ~f.readable \/ ~f.ast.ok THEN <<>>
    ELSE [i \in 1..Len(f.ast.funcs) |->
            [file |-> RelPath(f), function |-> f.ast.funcs[i].name,
             complexity |-> Complexity(f.ast.funcs, i)]]

RECURSIVE Layer9Functions(_)
Layer9Functions(files) ==
    IF files = <<>> THEN <<>>
    ELSE Layer9File(Head(files)) \o Layer9Functions(Tail(files))

\* `complexity_reports[:10]`
CriticalFunctionsCap == 10

\* The aggregate taken over the functions listed: only those above the
\* threshold and within the cap are counted.
Layer9ResultsOverListed(files) ==
    LET scanned == Layer9Functions(files)
        flagged == Take(SelectSeq(scanned, LAMBDA fn : fn.complexity > 10),
                        CriticalFunctionsCap)
        complexity_reports ==
            [i \in 1..Len(flagged) |->
                [file |-> flagged[i].file, function |-> flagged[i].function,
                 complexity |-> flagged[i].complexity,
                 severity |-> IF flagged[i].complexity > 20 THEN "HIGH" ELSE "MEDIUM"]]
        total_complexity == SumSeq([i \in 1..Len(flagged) |-> flagged[i].complexity])
        function_count == Len(flagged)
    IN  [critical_functions |-> complexity_reports,
         average_complexity_x100 |->
             IF function_count > 0 THEN RoundHundredths(total_complexity, function_count)
             ELSE 0,
         total_functions_scanned |-> function_count]

\* self.complexity_results
Layer9Results(files) ==
    LET scanned == Layer9Functions(files)
        flagged == SelectSeq(scanned, LAMBDA fn : fn.complexity > 10)
        complexity_reports ==
            [i \in 1..Len(flagged) |->
                [file |-> flagged[i].file, function |-> flagged[i].function,
                 complexity |-> flagged[i].complexity,
                 severity |-> IF flagged[i].complexity > 20 THEN "HIGH" ELSE "MEDIUM"]]
        total_complexity == SumSeq([i \in 1..Len(scanned) |-> scanned[i].complexity])
        function_count == Len(scanned)
    IN  [critical_functions |-> Take(complexity_reports, CriticalFunctionsCap),
         average_complexity_x100 |->
             IF function_count > 0 THEN RoundHundredths(total_complexity, function_count)
             ELSE 0,
         total_functions_scanned |-> function_count]

(***************************************************************************)
(* Layer 10: duplication scan (_run_layer10_duplication_scan).             *)
(***************************************************************************)
chunk_size == 6

Whitespace == {" ", "\t"}

RECURSIVE LStrip(_)
LStrip(s) == IF s # <<>> /\ Head(s) \in Whitespace THEN LStrip(Tail(s)) ELSE s

RECURSIVE RStrip(_)
RStrip(s) ==
    IF s # <<>> /\ s[Len(s)] \in Whitespace THEN RStrip(SubSeq(s, 1, Len(s) - 1)) ELSE s

\* str.strip()
Strip(s) == RStrip(LStrip(s))

CommentPrefixes == {<<"#">>, <<"/", "/">>, <<"/", "*">>, <<"*">>}

\* The list comprehension over f.readlines(): the stripped lines that are
\* neither blank nor comments.
NormalizedLines(raw) ==
    LET kept == SelectSeq(raw, LAMBDA line :
                    /\ Strip(line) # <<>>
                    /\ ~\E p \in CommentPrefixes : StartsWith(Strip(line), p))
    IN  [i \in 1..Len(kept) |-> Strip(kept[i])]

RECURSIVE JoinLines(_)
\* "".join(lines)
JoinLines(lines) == IF lines = <<>> THEN <<>> ELSE Head(lines) \o JoinLines(Tail(lines))

\* hashlib.md5(chunk.encode()).hexdigest(), taken as collision-free: the
\* digest of a chunk is the chunk's text.
Digest(chunk) == chunk

Layer10Extensions == {x_py, x_js, x_ts, x_go, x_java}

Layer10Scans(f) ==
    /\ ~Skipped(Exclude_layer10, f.dir)
    /\ EndsWithAny(f.name, Layer10Extensions)
    /\ f.readable

\* The normalized lines layer 10 reads from one file.
Layer10Lines(f) == IF Layer10Scans(f) THEN NormalizedLines(f.lines) ELSE <<>>

\* The windows of one file in order: [h, loc] for `range(len(lines) -
\* chunk_size + 1)`.
Layer10FileWindows(f) ==
    LET lines == Layer10Lines(f)
        n == Len(lines) - chunk_size + 1
    IN  IF n <= 0 THEN <<>>
        ELSE [i \in 1..n |->
                [h |-> Digest(JoinLines(SubSeq(lines, i, i + chunk_size - 1))),
                 loc |-> <<RelPath(f), i>>]]

RECURSIVE Layer10Windows(_)
Layer10Windows(files) ==
    IF files = <<>> THEN <<>>
    ELSE Layer10FileWindows(Head(files)) \o Layer10Windows(Tail(files))

RECURSIVE Layer10TotalLines(_)
Layer10TotalLines(files) ==
    IF files = <<>> THEN 0
    ELSE Len(Layer10Lines(Head(files))) + Layer10TotalLines(Tail(files))

RECURSIVE DistinctInOrder(_, _)
\* The keys of the `hashes` dict in insertion order.
DistinctInOrder(hs, seen) ==
    IF hs = <<>> THEN <<>>
    ELSE IF Head(hs) \in seen THEN DistinctInOrder(Tail(hs), seen)
    ELSE <<Head(hs)>> \o DistinctInOrder(Tail(hs), seen \cup {Head(hs)})

\* The `hashes` dict after the walk: its items in insertion order, each
\* [h, locs].
Layer10Hashes(files) ==
    LET windows == Layer10Windows(files)
        keys == DistinctInOrder([i \in 1..Len(windows) |-> windows[i].h], {})
    IN  [k \in 1..Len(keys) |->
            LET same == SelectSeq(windows, LAMBDA w : w.h = keys[k])
            IN  [h |-> keys[k], locs |-> [i \in 1..Len(same) |-> same[i].loc]]]

\* duplicated_lines_count after the "Identify duplicates" loop.
DuplicatedLinesCount(hashes) ==
    SumSeq([k \in 1..Len(hashes) |->
              IF Len(hashes[k].locs) > 1
              THEN chunk_size * (Len(hashes[k].locs) - 1) ELSE 0])

\* `if len(duplications) < 5`
TopClustersCap == 5

\* self.duplication_results; the ratio in hundredths of a percent.
Layer10Results(files) ==
    LET hashes == Layer10Hashes(files)
        dups == SelectSeq(hashes, LAMBDA e : Len(e.locs) > 1)
        total_lines == Layer10TotalLines(files)
        duplications ==
            [k \in 1..Min(TopClustersCap, Len(dups)) |->
                [primary_location |-> dups[k].locs[1],
                 occurrences |-> Len(dups[k].locs),
                 clones |-> SubSeq(dups[k].locs, 2, Min(4, Len(dups[k].locs)))]]
    IN  [duplication_ratio_x100 |->
             IF total_lines > 0
             THEN RoundHundredths(DuplicatedLinesCount(hashes) * 100, total_lines)
             ELSE 0,
         top_clusters |-> duplications,
         total_lines_scanned |-> total_lines]

(***************************************************************************)
(* Layer 7: dependency graph (_run_layer7_dependency_graph).               *)
(* A file's `imports` lists the matches of the four import patterns in     *)
(* the order the code visits them (pattern by pattern, then text order):   *)
(* [target, end], the captured group and the offset just past the match.   *)
(***************************************************************************)
Layer7Extensions == {x_py, x_js, x_ts, x_tsx, x_go}

NodesCap == 50
LinksCap == 100

IsNode(f) == ~Skipped(Exclude_layer7, f.dir) /\ EndsWithAny(f.name, Layer7Extensions)

\* file_to_id in insertion order: the files that are nodes.
Layer7Sources(files) == SelectSeq(files, IsNode)

\* nodes; ids start at 0.
Layer7Nodes(files) ==
    LET srcs == Layer7Sources(files)
    IN  [i \in 1..Len(srcs) |->
            [id |-> i - 1, name |-> srcs[i].name, path |-> RelPath(srcs[i]),
             type |-> "module"]]

\* target.replace(".", "/")
ReplaceDots(target) == [i \in 1..Len(target) |-> IF target[i] = "." THEN "/" ELSE target[i]]

\* The resolution without the `source_path != potential_target` test: the
\* first node whose path contains the normalized target, the source's own
\* node included.
ResolveImportAnyNode(srcs, s, target) ==
    LET hit == {t \in 1..Len(srcs) : Contains(ReplaceDots(target), RelPath(srcs[t]))}
    IN  IF hit = {} THEN <<>>
        ELSE <<[source |-> s - 1,
                target |-> (CHOOSE t \in hit : \A u \in hit : t <= u) - 1,
                value |-> 1]>>

\* The link one import match of source s adds: the first node, in
\* file_to_id order, whose path contains the normalized target and is not
\* the source's own path; <<>> when there is none.
ResolveImport(srcs, s, target) ==
    LET hit == {t \in 1..Len(srcs) :
                    /\ Contains(ReplaceDots(target), RelPath(srcs[t]))
                    /\ RelPath(srcs[s]) # RelPath(srcs[t])}
    IN  IF hit = {} THEN <<>>
        ELSE <<[source |-> s - 1,
                target |-> (CHOOSE t \in hit : \A u \in hit : t <= u) - 1,
                value |-> 1]>>

RECURSIVE Layer7ImportLinks(_, _, _)
Layer7ImportLinks(srcs, s, imports) ==
    IF imports = <<>> THEN <<>>
    ELSE (IF Head(imports).end <= ReadLimit10000
          THEN ResolveImport(srcs, s, Head(imports).target) ELSE <<>>)
         \o Layer7ImportLinks(srcs, s, Tail(imports))

RECURSIVE Layer7Links(_, _)
\* links, from source s on.
Layer7Links(srcs, s) ==
    IF s > Len(srcs) THEN <<>>
    ELSE (IF srcs[s].readable THEN Layer7ImportLinks(srcs, s, srcs[s].imports) ELSE <<>>)
         \o Layer7Links(srcs, s + 1)

\* The graph with the links reconciled with the node cut: a link is kept
\* only when both its ends are among the nodes returned.
Layer7GraphReconciled(files) ==
    LET nodes == Take(Layer7Nodes(files), NodesCap)
        kept == SelectSeq(Layer7Links(Layer7Sources(files), 1),
                          LAMBDA l : l.source < Len(nodes) /\ l.target < Len(nodes))
    IN  [nodes |-> nodes, links |-> Take(kept, LinksCap)]

\* self.dependency_graph
Layer7Graph(files) ==
    [nodes |-> Take(Layer7Nodes(files), NodesCap),
     links |-> Take(Layer7Links(Layer7Sources(files), 1), LinksCap)]

(***************************************************************************)
(* Layer 1: stack and standards detection (_run_layer1_static_scan).       *)
(* A package.json has `json_ok` (json.load succeeds and yields an object)  *)
(* and `deps`, the keys of dependencies and devDependencies.  A keyword    *)
(* the code looks for in content.lower() is a hit named by the keyword.    *)
(***************************************************************************)
k_react == <<"r", "e", "a", "c", "t">>
k_next == <<"n", "e", "x", "t">>
k_vue == <<"v", "u", "e">>
k_express == <<"e", "x", "p", "r", "e", "s", "s">>
k_tailwind == <<"t", "a", "i", "l", "w", "i", "n", "d">>
k_prisma == <<"p", "r", "i", "s", "m", "a">>
k_mongoose == <<"m", "o", "n", "g", "o", "o", "s", "e">>
k_jest == <<"j", "e", "s", "t">>
k_vitest == <<"v", "i", "t", "e", "s", "t">>
k_pytest == <<"p", "y", "t", "e", "s", "t">>
k_jest_vitest_playwright ==
    <<"j", "e", "s", "t", "/", "v", "i", "t", "e", "s", "t", "/",
      "p", "l", "a", "y", "w", "r", "i", "g", "h", "t">>

UpperCase ==
    <<"A", "B", "C", "D", "E", "F", "G", "H", "I", "J", "K", "L", "M",
      "N", "O", "P", "Q", "R", "S", "T", "U", "V", "W", "X", "Y", "Z">>
LowerCase ==
    <<"a", "b", "c", "d", "e", "f", "g", "h", "i", "j", "k", "l", "m",
      "n", "o", "p", "q", "r", "s", "t", "u", "v", "w", "x", "y", "z">>

\* str.lower()
Lower(s) ==
    [i \in 1..Len(s) |->
        IF \E k \in 1..26 : UpperCase[k] = s[i]
        THEN LowerCase[CHOOSE k \in 1..26 : UpperCase[k] = s[i]]
        ELSE s[i]]

\* Every prefix of a directory path, the path included.
Prefixes(dir) == {SubSeq(dir, 1, n) : n \in 0..Len(dir)}

\* The directories os.walk visits: the root, the root's child directories
\* and every directory on the way to a file.
Directories(files, listing) ==
    {<<>>} \cup {<<d>> : d \in listing.dirs}
           \cup UNION {Prefixes(files[i].dir) : i \in DOMAIN files}

\* `dirs` and `files` of one os.walk step.
SubdirNames(files, listing, root) ==
    {d[Len(d)] : d \in {e \in Directories(files, listing) :
                          Len(e) = Len(root) + 1 /\ SubSeq(e, 1, Len(root)) = root}}

FileNamesIn(files, root) == {files[i].name : i \in {j \in DOMAIN files : files[j].dir = root}}

\* The roots whose loop body layer 1 runs.
Layer1Roots(files, listing) ==
    {r \in Directories(files, listing) : ~Skipped(Exclude_layer1, r)}

\* The standards flags set from the directory listings.
Layer1DirStandards(files, listing) ==
    LET roots == Layer1Roots(files, listing)
    IN  [has_readme |-> \E r \in roots : f_README_md \in FileNamesIn(files, r),
         has_gitignore |-> \E r \in roots : f_gitignore \in FileNamesIn(files, r),
         has_docker |-> \E r \in roots :
             \/ f_docker_compose_yml \in FileNamesIn(files, r)
             \/ f_Dockerfile \in FileNamesIn(files, r),
         has_ci_cd |-> \E r \in roots :
             \/ s_github \in SubdirNames(files, listing, r)
             \/ f_gitlab_ci_yml \in FileNamesIn(files, r)]

\* package.json: the dependency-name tests, [substring, category, name].
PackageDepTable ==
    {<<k_react, "Frontend", "React">>, <<k_next, "Frontend", "Next.js">>,
     <<k_vue, "Frontend", "Vue.js">>, <<k_express, "Backend", "Express">>,
     <<k_tailwind, "Frontend", "Tailwind CSS">>, <<k_prisma, "Database", "Prisma ORM">>,
     <<k_mongoose, "Database", "Mongoose/MongoDB">>}

\* requirements.txt / pyproject.toml: [keyword, category, name].
RequirementsTable ==
    {<<"fastapi", "Backend", "FastAPI">>, <<"django", "Backend", "Django">>,
     <<"flask", "Backend", "Flask">>, <<"sqlalchemy", "Database", "SQLAlchemy">>,
     <<"psycopg2", "Database", "PostgreSQL">>, <<"asyncpg", "Database", "PostgreSQL">>}

\* Content-based detection in source files: [keyword, category, name].
ContentTable ==
    {<<"fastapi", "Backend", "FastAPI">>, <<"spring", "Backend", "Spring Boot">>,
     <<"laravel", "Backend", "Laravel">>, <<"torch", "AI/ML", "PyTorch">>,
     <<"pytorch", "AI/ML", "PyTorch">>, <<"tensorflow", "AI/ML", "TensorFlow">>,
     <<"keras", "AI/ML", "Keras">>, <<"transformers", "AI/ML", "HuggingFace Transformers">>,
     <<"moshi", "AI/ML", "Moshi (Kyutai)">>, <<"openai", "AI/ML", "OpenAI SDK">>,
     <<"groq", "AI/ML", "Groq SDK">>, <<"scikit-learn", "AI/ML", "Scikit-Learn">>,
     <<"sklearn", "AI/ML", "Scikit-Learn">>, <<"numpy", "AI/ML", "NumPy">>,
     <<"pandas", "AI/ML", "Pandas">>}

\* Extension-based detection: [extensions, name], all in Languages.
ExtensionTable ==
    {<<{x_py}, "Python">>, <<{x_js, x_jsx, x_ts, x_tsx}, "JavaScript/TypeScript">>,
     <<{x_go}, "Go">>, <<{x_rs}, "Rust">>, <<{x_java}, "Java">>}

ContentExtensions == {x_py, x_java, x_php, x_rb, x_go, x_rs, x_js, x_ts, x_tsx}

IsKubernetes(f) == f.name \in {f_deployment_yaml, f_k8s_yaml} \/ EndsWith(WalkRoot(f.dir), s_k8s)

IsTestFile(f) ==
    \/ Contains(p_test, Lower(f.name))
    \/ EndsWithAny(f.name, {x_test_go, x_spec_ts, x_spec_js})

\* The <<category, name>> pairs one file adds to stack_categories.
Layer1FileStack(f) ==
    (IF f.name = f_package_json
     THEN {<<"Tools", "NPM/Yarn">>}
          \cup (IF f.readable /\ f.json_ok
                THEN {<<e[2], e[3]>> : e \in
                        {t \in PackageDepTable : \E dep \in f.deps : Contains(t[1], dep)}}
                ELSE {})
     ELSE {})
    \cup
    (IF f.name \in {f_requirements_txt, f_pyproject_toml}
     THEN {<<"Languages", "Python">>}
          \cup (IF f.readable
                THEN {<<e[2], e[3]>> : e \in
                        {t \in RequirementsTable : MatchesAnywhere(f, t[1])}}
                ELSE {})
     ELSE {})
    \cup {<<"Languages", e[2]>> : e \in {t \in ExtensionTable : EndsWithAny(f.name, t[1])}}
    \cup (IF EndsWith(f.name, x_tf) THEN {<<"Infrastructure", "Terraform">>} ELSE {})
    \cup (IF IsKubernetes(f) THEN {<<"Infrastructure", "Kubernetes">>} ELSE {})
    \cup (IF EndsWithAny(f.name, ContentExtensions) /\ f.readable
          THEN {<<e[2], e[3]>> : e \in
                  {t \in ContentTable : MatchesWithin(f, t[1], ReadLimit5000)}}
          ELSE {})

\* The test frameworks one file adds to test_frameworks.
Layer1FileFrameworks(f) ==
    (IF f.name = f_package_json /\ f.readable /\ f.json_ok
     THEN {dep \in f.deps : Contains(k_jest, dep) \/ Contains(k_vitest, dep)}
     ELSE {})
    \cup (IF f.name \in {f_requirements_txt, f_pyproject_toml} /\ f.readable
             /\ MatchesAnywhere(f, "pytest")
          THEN {k_pytest} ELSE {})
    \cup (IF IsTestFile(f) /\ EndsWith(f.name, x_py) THEN {k_pytest} ELSE {})
    \cup (IF IsTestFile(f) /\ EndsWithAny(f.name, {x_ts, x_js})
          THEN {k_jest_vitest_playwright} ELSE {})

\* testing_detected is set by one file.
Layer1FileTesting(f) == Layer1FileFrameworks(f) # {} \/ IsTestFile(f)

StackCategories ==
    {"Languages", "Backend", "Frontend", "Database", "Infrastructure", "Testing",
     "AI/ML", "Tools"}

\* self.static_findings.  `stack`, the category lists and `frameworks` are
\* list(set), in the hash order of the process.
Layer1Results(files, listing, order) ==
    LET scanned == {i \in DOMAIN files : ~Skipped(Exclude_layer1, files[i].dir)}
        pairs == UNION {Layer1FileStack(files[i]) : i \in scanned}
        dirflags == Layer1DirStandards(files, listing)
    IN  [stack |-> ListOfSet({p[2] : p \in pairs}, order),
         categories |->
            [c \in StackCategories |->
                ListOfSet({p[2] : p \in {q \in pairs : q[1] = c}}, order)],
         standards |->
            [has_readme |-> dirflags.has_readme,
             has_gitignore |-> dirflags.has_gitignore,
             has_docker |-> dirflags.has_docker,
             has_ci_cd |-> dirflags.has_ci_cd,
             has_terraform |-> \E i \in scanned : EndsWith(files[i].name, x_tf),
             has_kubernetes |-> \E i \in scanned : IsKubernetes(files[i]),
             has_openapi |-> \E i \in scanned :
                 files[i].name \in {f_openapi_yaml, f_swagger_json},
             has_linting |-> \E i \in scanned :
                 \/ StartsWith(files[i].name, p_eslintrc)
                 \/ files[i].name = f_prettier_config_js],
         testing |->
            [detected |-> \E i \in scanned : Layer1FileTesting(files[i]),
             frameworks |->
                ListOfSet(UNION {Layer1FileFrameworks(files[i]) : i \in scanned}, order)]]

(***************************************************************************)
(* Layer 2: structural evaluation (_run_layer2_structural_evaluation).     *)
(* `listing` is what os.listdir(self.repo_path) gives: ok is FALSE when it *)
(* raises, dirs are the names of the root's child directories.             *)
(***************************************************************************)
s_src == <<"s", "r", "c">>
s_myvenv == <<"m", "y", "v", "e", "n", "v">>
s_app == <<"a", "p", "p">>
s_api == <<"a", "p", "i">>
s_services == <<"s", "e", "r", "v", "i", "c", "e", "s">>
s_logic == <<"l", "o", "g", "i", "c">>
s_core == <<"c", "o", "r", "e">>
s_models == <<"m", "o", "d", "e", "l", "s">>
s_db == <<"d", "b">>
s_entities == <<"e", "n", "t", "i", "t", "i", "e", "s">>
s_domain == <<"d", "o", "m", "a", "i", "n">>
s_use_cases == <<"u", "s", "e", "_", "c", "a", "s", "e", "s">>
s_infrastructure == <<"i", "n", "f", "r", "a", "s", "t", "r", "u", "c", "t", "u", "r", "e">>
s_events == <<"e", "v", "e", "n", "t", "s">>
s_pubsub == <<"p", "u", "b", "s", "u", "b">>
s_kafka == <<"k", "a", "f", "k", "a">>
s_rabbitmq == <<"r", "a", "b", "b", "i", "t", "m", "q">>
s_apps == <<"a", "p", "p", "s">>

\* [names, label] in the order the code appends the labels.
StructuralPatterns ==
    <<[names |-> {s_app, s_src, s_api}, label |-> "Standard Source Layout"],
      [names |-> {s_services, s_logic, s_core}, label |-> "Service Layer Pattern"],
      [names |-> {s_models, s_db, s_entities}, label |-> "Data Modeling Layer"],
      [names |-> {s_domain, s_use_cases, s_infrastructure},
       label |-> "Clean/Hexagonal Architecture"],
      [names |-> {s_events, s_pubsub, s_kafka, s_rabbitmq},
       label |-> "Event-Driven Architecture"]>>

\* The listing without the `not d.startswith(".")` test: hidden directories
\* are root directories like any other.
RootDirsWithHidden(listing) == IF listing.ok THEN listing.dirs ELSE {}

\* root_dirs, as a set: the order of os.listdir is not used.
RootDirs(listing) ==
    IF listing.ok THEN {d \in listing.dirs : ~StartsWith(d, <<".">>)} ELSE {}

\* self.structural_findings
Layer2Results(listing) ==
    LET root_dirs == RootDirs(listing)
        basic == SelectSeq(StructuralPatterns, LAMBDA p : p.names \cap root_dirs # {})
        dir_count == Cardinality(root_dirs)
    IN  [patterns_detected |->
            [i \in 1..Len(basic) |-> basic[i].label]
            \o (IF {s_services, s_apps} \cap root_dirs # {} /\ dir_count > 8
                THEN <<"Microservices / Multi-Repo Layout">> ELSE <<>>),
         modularity_score |->
            IF dir_count > 5 THEN 80 ELSE IF dir_count > 2 THEN 50 ELSE 20,
         concerns_separation |->
            IF dir_count > 5 THEN "High (Modularized)"
            ELSE IF dir_count > 2 THEN "Moderate" ELSE "Low (Monolithic)"]

(***************************************************************************)
(* Layer 3: heuristic critique (_run_layer3_architectural_critique).       *)
(***************************************************************************)
\* The summary text: which of the three sentences, and which language note.
\* `stack_str` joins stack[:2].
Layer3Summary(score, stack) ==
    [variant |-> IF score > 80 THEN "exceptionally well-structured"
                 ELSE IF score > 50 THEN "solid baseline"
                 ELSE "early stages",
     stack_str |-> IF score > 50 THEN Take(stack, 2) ELSE <<>>,
     note |-> IF "Go" \in Range(stack) THEN "Go"
              ELSE IF "Python" \in Range(stack) THEN "Python"
              ELSE IF "Node.js/NPM" \in Range(stack) \/ "React/Next.js" \in Range(stack)
              THEN "JS/TS"
              ELSE "none"]

\* One entry of technical_debt: its issue and the number the issue text
\* embeds (0 when it embeds none).
DebtItem(issue, value) == [issue |-> issue, value |-> value]

\* `debt`
Layer3Debt(static, struct) ==
    (IF ~static.standards.has_docker
     THEN <<DebtItem("Missing Containerization", 0)>> ELSE <<>>)
    \o (IF ~static.standards.has_ci_cd
        THEN <<DebtItem("No CI/CD Automation", 0)>> ELSE <<>>)
    \o (IF ~static.testing.detected
        THEN <<DebtItem("Untested Codebase", 0)>> ELSE <<>>)
    \o (IF struct.concerns_separation = "Low (Monolithic)"
        THEN <<DebtItem("Monolithic Structure", 0)>> ELSE <<>>)

(***************************************************************************)
(* Scoring (_calculate_final_score).  Scores are Python ints; arch_score   *)
(* is a float, min(30, 10 * patterns) + (modularity_score / 100) * 10,     *)
(* which is a whole number for the modularity scores layer 2 produces      *)
(* (0, 20, 50, 80), so int() truncation is the integer division below.     *)
(***************************************************************************)
Max(a, b) == IF a > b THEN a ELSE b

InfraScore(stds) ==
    (IF stds.has_docker THEN 15 ELSE 0) + (IF stds.has_ci_cd THEN 15 ELSE 0)

StandardsScore(static) ==
    (IF static.standards.has_readme THEN 5 ELSE 0)
    + (IF static.standards.has_gitignore THEN 5 ELSE 0)
    + (IF static.testing.detected THEN 20 ELSE 0)

\* int(arch_score)
ArchScore(struct) ==
    Min(30, Len(struct.patterns_detected) * 10) + (struct.modularity_score * 10) \div 100

\* The loop with a third test: a MEDIUM finding costs 5.
SeverityPenaltyWithMedium(severity) ==
    IF severity = "CRITICAL" THEN 30
    ELSE IF severity = "HIGH" THEN 15
    ELSE IF severity = "MEDIUM" THEN 5 ELSE 0

SeverityPenalty(severity) ==
    IF severity = "CRITICAL" THEN 30 ELSE IF severity = "HIGH" THEN 15 ELSE 0

SecurityPenalty(findings) ==
    SumSeq([i \in 1..Len(findings) |-> SeverityPenalty(findings[i].severity)])

\* The thresholds taken inclusively (>= 15, >= 8).
ComplexityPenaltyInclusive(avg_x100) ==
    IF avg_x100 >= 1500 THEN 15 ELSE IF avg_x100 >= 800 THEN 5 ELSE 0

\* avg_comp in hundredths
ComplexityPenalty(avg_x100) ==
    IF avg_x100 > 1500 THEN 15 ELSE IF avg_x100 > 800 THEN 5 ELSE 0

\* dup_ratio in hundredths
DuplicationPenalty(ratio_x100) ==
    IF ratio_x100 > 1500 THEN 15 ELSE IF ratio_x100 > 500 THEN 5 ELSE 0

\* self.overall_score after the four assignments to it.
FinalScore(static, struct, findings, avg_x100, ratio_x100) ==
    LET score == InfraScore(static.standards) + StandardsScore(static) + ArchScore(struct)
        s0 == Min(100, score)
        s1 == Max(0, s0 - SecurityPenalty(findings))
        s2 == Max(0, s1 - ComplexityPenalty(avg_x100))
    IN  Max(0, s2 - DuplicationPenalty(ratio_x100))

\* The three thresholds taken exclusively (< 40, < 65, < 85).
MaturityLabelExclusive(score) ==
    IF score < 40 THEN "Basic"
    ELSE IF score < 65 THEN "Intermediate"
    ELSE IF score < 85 THEN "Production"
    ELSE "Enterprise"

MaturityLabel(score) ==
    IF score <= 40 THEN "Basic"
    ELSE IF score <= 65 THEN "Intermediate"
    ELSE IF score <= 85 THEN "Production"
    ELSE "Enterprise"

\* The breakdown with the penalties stored as the positive amounts deducted.
ScoreBreakdownUnsigned(static, struct, findings, avg_x100, ratio_x100) ==
    [infrastructure |-> InfraScore(static.standards),
     standards_tests |-> StandardsScore(static),
     architecture |-> ArchScore(struct),
     security |-> SecurityPenalty(findings),
     complexity |-> ComplexityPenalty(avg_x100),
     duplication |-> DuplicationPenalty(ratio_x100)]

ScoreBreakdown(static, struct, findings, avg_x100, ratio_x100) ==
    [infrastructure |-> InfraScore(static.standards),
     standards_tests |-> StandardsScore(static),
     architecture |-> ArchScore(struct),
     security |-> 0 - SecurityPenalty(findings),
     complexity |-> 0 - ComplexityPenalty(avg_x100),
     duplication |-> 0 - DuplicationPenalty(ratio_x100)]

(***************************************************************************)
(* State.                                                                  *)
(*   tree, listing   the repository on disk (unchanged during the runs)    *)
(*   on_progress     the observer given to the analyzer: "none",           *)
(*                   "callback", which may raise on any invocation, or     *)
(*                   "on_analysis_progress", the worker task's closure,    *)
(*                   which catches whatever is raised inside it            *)
(*   brain_client    ArchonBrain().client is set (GROQ_API_KEY present)    *)
(*   hash_order      the str hash order of the interpreter process the     *)
(*                   current run executes in                               *)
(*   self            the RepositoryAnalyzer object's attributes            *)
(*   pc, status      the position in analyze(): the index of the next      *)
(*                   statement, and "running", "returned" or "raised"      *)
(*                   ("not called" while the worker task still clones)     *)
(*   reports         the dicts analyze() has returned, oldest first, as    *)
(*                   their holder sees them now: [by, value], the analyzer *)
(*                   that returned the dict and the dict                   *)
(*   analyzers       how many RepositoryAnalyzer objects have been built   *)
(*   history         of the current run: the statements completed, in      *)
(*                   order, the files each layer's walk loop reached, how  *)
(*                   often the observer raised, and what the network, the  *)
(*                   AI service and the observer answered (`previous`:     *)
(*                   what they answered the run before)                    *)
(*   task            the clone_repository task that drives the analyzer    *)
(*                   (NoTask when analyze() is called directly): phase,    *)
(*                   where the task body is; repo_status, the status       *)
(*                   column of the repository row; limit, whether the      *)
(*                   worker's soft time limit is armed, has raised         *)
(*                   SoftTimeLimitExceeded into an except clause that      *)
(*                   swallowed it, or has raised it through the task body  *)
(***************************************************************************)
VARIABLES tree, listing, on_progress, brain_client, hash_order, self, pc, status,
          reports, analyzers, history, task

vars == <<tree, listing, on_progress, brain_client, hash_order, self, pc, status,
          reports, analyzers, history, task>>

repo == <<tree, listing, on_progress, brain_client>>

env == <<repo, hash_order>>

NoSummary == [variant |-> "", stack_str |-> <<>>, note |-> ""]

\* RepositoryAnalyzer.__init__.  An empty dict that the code reads with
\* .get(key, default) holds the defaults.
NewAnalyzerState ==
    [static_findings |->
        [stack |-> <<>>,
         categories |-> [c \in StackCategories |-> <<>>],
         standards |->
            [has_readme |-> FALSE, has_gitignore |-> FALSE, has_docker |-> FALSE,
             has_ci_cd |-> FALSE, has_terraform |-> FALSE, has_kubernetes |-> FALSE,
             has_openapi |-> FALSE, has_linting |-> FALSE],
         testing |-> [detected |-> FALSE, frameworks |-> <<>>]],
     structural_findings |->
        [patterns_detected |-> <<>>, modularity_score |-> 0,
         concerns_separation |-> "Unknown"],
     critique |-> NoSummary,
     overall_score |-> 0,
     maturity_label |-> "Pending",
     score_breakdown |->
        [infrastructure |-> 0, standards_tests |-> 0, architecture |-> 0,
         security |-> 0, complexity |-> 0, duplication |-> 0],
     roadmap |-> <<>>,
     security_findings |-> <<>>,
     logs |-> <<>>,
     ai_analysis |-> "none",
     structured_critique |-> [executive_summary |-> NoSummary, technical_debt |-> <<>>],
     complexity_results |->
        [critical_functions |-> <<>>, average_complexity_x100 |-> 0,
         total_functions_scanned |-> 0],
     duplication_results |->
        [duplication_ratio_x100 |-> 0, top_clusters |-> <<>>, total_lines_scanned |-> 0],
     secops_results |->
        [monitored_domains |-> <<>>, dns_health |-> "", tls_compliance |-> ""],
     tech_recommendations |-> "none",
     dependency_graph |-> [nodes |-> <<>>, links |-> <<>>]]

NoHistory ==
    [steps |-> <<>>, walked |-> <<>>, observer_raised |-> 0, answers |-> <<>>,
     previous |-> <<>>]

\* analyze() called by something other than the worker task.
NoTask == [phase |-> "none", repo_status |-> "pending", limit |-> "off"]

\* The dict analyze() returns.
Report(s) ==
    [static_scan |-> s.static_findings,
     structural_evaluation |-> s.structural_findings,
     architectural_critique |-> s.critique,
     structured_critique |-> s.structured_critique,
     ai_analysis |-> s.ai_analysis,
     overall_score |-> s.overall_score,
     maturity_label |-> s.maturity_label,
     score_breakdown |-> s.score_breakdown,
     actionable_roadmap |-> s.roadmap,
     security_findings |-> s.security_findings,
     complexity |-> s.complexity_results,
     duplication |-> s.duplication_results,
     secops |-> s.secops_results,
     tech_recommendations |-> s.tech_recommendations,
     dependency_graph |-> s.dependency_graph,
     logs |-> s.logs]

\* The returned dicts after a statement that leaves the analyzer as `s`.
\* A returned dict holds the analyzer's security_findings and logs lists
\* themselves, not copies: what the analyzer appends later shows in the
\* dict.  The same goes for the roadmap list when layer 8 appends to it
\* (`roadmap`): the one statement that rebinds self.roadmap, in layer 6,
\* runs between layer 8 and the return.
HeldReports(s, roadmap) ==
    [i \in DOMAIN reports |->
        IF reports[i].by = analyzers
        THEN [reports[i] EXCEPT
                 !.value.security_findings = s.security_findings,
                 !.value.logs = s.logs,
                 !.value.actionable_roadmap = IF roadmap THEN s.roadmap ELSE @]
        ELSE reports[i]]

(***************************************************************************)
(* analyze(): its statements in program order.                             *)
(***************************************************************************)
\* analyze() with `self._calculate_final_score()` moved up, ahead of the
\* duplication scan.
AnalyzeStepsScoreEarly ==
    <<"Phase Alpha: Initiating deep static scan...",
      "layer1",
      "Phase Beta: Evaluating structural modularity and patterns...",
      "layer2",
      "Phase Gamma: Running heuristic architectural audit...",
      "layer3",
      "Phase Delta: Auditing security layers and secrets...",
      "layer5",
      "Phase Eta: Deep Infrastructure Audit (Config Hardening)...",
      "layer8",
      "Phase Iota: Calculating deterministic code complexity (AST)...",
      "layer9",
      "score",
      "Phase Kappa: Running DRY Audit (Code Duplication Scan)...",
      "layer10",
      "Phase Lambda: Conducting SecOps Enterprise Audit (SSL/DNS)...",
      "layer11",
      "Phase Mu: Mapping architectural dependency graph...",
      "layer7",
      "Phase Nu: Generating Tech Stack Recommendations...",
      "layer4b",
      "Phase Zeta: Running Deep Semantic Audit (AI Architect)...",
      "layer6",
      "Analysis Complete.",
      "return">>

AnalyzeSteps ==
    <<"Phase Alpha: Initiating deep static scan...",
      "layer1",
      "Phase Beta: Evaluating structural modularity and patterns...",
      "layer2",
      "Phase Gamma: Running heuristic architectural audit...",
      "layer3",
      "Phase Delta: Auditing security layers and secrets...",
      "layer5",
      "Phase Eta: Deep Infrastructure Audit (Config Hardening)...",
      "layer8",
      "Phase Iota: Calculating deterministic code complexity (AST)...",
      "layer9",
      "Phase Kappa: Running DRY Audit (Code Duplication Scan)...",
      "layer10",
      "Phase Lambda: Conducting SecOps Enterprise Audit (SSL/DNS)...",
      "layer11",
      "Phase Mu: Mapping architectural dependency graph...",
      "layer7",
      "score",
      "Phase Nu: Generating Tech Stack Recommendations...",
      "layer4b",
      "Phase Zeta: Running Deep Semantic Audit (AI Architect)...",
      "layer6",
      "Analysis Complete.",
      "return">>

LayerSteps ==
    {"layer1", "layer2", "layer3", "layer5", "layer8", "layer9", "layer10",
     "layer11", "layer7", "score", "layer4b", "layer6", "return"}

\* The statement analyze() is about to execute.
At(step) == status = "running" /\ pc \in DOMAIN AnalyzeSteps /\ AnalyzeSteps[pc] = step

\* The statement completes: analyze() moves to the next one.
Advance(step, walked, answers) ==
    /\ pc' = pc + 1
    /\ status' = "running"
    /\ history' = [history EXCEPT !.steps = Append(@, step), !.walked = @ \o walked,
                                  !.answers = @ \o answers]

\* The paths of the files in the roots a layer's walk does not skip.
Walked(layer, excluded) ==
    <<[layer |-> layer,
       paths |-> {RelPath(tree[i]) : i \in {j \in DOMAIN tree : ~Skipped(excluded, tree[j].dir)}}]>>

\* _log(message): the outcomes of `self.on_progress(message)`.
ObserverOutcomes == IF on_progress = "callback" THEN {"returns", "raises"} ELSE {"returns"}

\* A `self._log(...)` statement of analyze().
LogStep ==
    /\ status = "running"
    /\ pc \in DOMAIN AnalyzeSteps
    /\ AnalyzeSteps[pc] \notin LayerSteps
    /\ self' = [self EXCEPT !.logs = Append(@, AnalyzeSteps[pc])]
    /\ \E outcome \in ObserverOutcomes :
          IF outcome = "returns"
          THEN Advance(AnalyzeSteps[pc], <<>>, <<>>)
          ELSE /\ status' = "raised"
               /\ pc' = pc
               /\ history' = [history EXCEPT !.observer_raised = @ + 1]
    /\ reports' = HeldReports(self', FALSE)
    /\ UNCHANGED <<env, analyzers, task>>

Layer1 ==
    /\ At("layer1")
    /\ self' = [self EXCEPT !.static_findings = Layer1Results(tree, listing, hash_order)]
    /\ Advance("layer1", Walked("layer1", Exclude_layer1), <<>>)
    /\ reports' = HeldReports(self', FALSE)
    /\ UNCHANGED <<env, analyzers, task>>

Layer2 ==
    /\ At("layer2")
    /\ self' = [self EXCEPT !.structural_findings = Layer2Results(listing)]
    /\ Advance("layer2", <<>>, <<>>)
    /\ reports' = HeldReports(self', FALSE)
    /\ UNCHANGED <<env, analyzers, task>>

Layer3 ==
    /\ At("layer3")
    /\ LET summary == Layer3Summary(self.overall_score, self.static_findings.stack)
       IN  self' = [self EXCEPT
               !.structured_critique =
                   [executive_summary |-> summary,
                    technical_debt |->
                        Layer3Debt(self.static_findings, self.structural_findings)],
               !.critique = summary]
    /\ Advance("layer3", <<>>, <<>>)
    /\ reports' = HeldReports(self', FALSE)
    /\ UNCHANGED <<env, analyzers, task>>

Layer5 ==
    /\ At("layer5")
    /\ self' = [self EXCEPT !.security_findings = @ \o Layer5Scan(tree)]
    /\ Advance("layer5", Walked("layer5", Exclude_layer5), <<>>)
    /\ reports' = HeldReports(self', FALSE)
    /\ UNCHANGED <<env, analyzers, task>>

Layer8 ==
    /\ At("layer8")
    /\ self' = [self EXCEPT !.security_findings = @ \o Layer8Audit(tree),
                            !.roadmap = @ \o Layer8Roadmap(tree)]
    /\ Advance("layer8", Walked("layer8", Exclude_layer8), <<>>)
    /\ reports' = HeldReports(self', TRUE)
    /\ UNCHANGED <<env, analyzers, task>>

Layer9 ==
    /\ At("layer9")
    /\ LET results == Layer9Results(tree)
       IN  self' = [self EXCEPT
               !.complexity_results = results,
               !.structured_critique.technical_debt =
                   IF results.average_complexity_x100 > 1000
                   THEN Append(@, DebtItem("High Complexity", results.average_complexity_x100))
                   ELSE @]
    /\ Advance("layer9", Walked("layer9", Exclude_layer9), <<>>)
    /\ reports' = HeldReports(self', FALSE)
    /\ UNCHANGED <<env, analyzers, task>>

Layer10 ==
    /\ At("layer10")
    /\ LET results == Layer10Results(tree)
       IN  self' = [self EXCEPT
               !.duplication_results = results,
               !.structured_critique.technical_debt =
                   IF results.duplication_ratio_x100 > 1000
                   THEN Append(@, DebtItem("Code Fragmentation", results.duplication_ratio_x100))
                   ELSE @]
    /\ Advance("layer10", Walked("layer10", Exclude_layer10), <<>>)
    /\ reports' = HeldReports(self', FALSE)
    /\ UNCHANGED <<env, analyzers, task>>

Layer11 ==
    /\ At("layer11")
    /\ \E probed \in ProbeLists(DomainsScanned(tree)) :
          \E outcome \in [{probed[i] : i \in DOMAIN probed} -> ProbeOutcomes] :
             /\ self' = [self EXCEPT
                    !.security_findings = @ \o Layer11Findings(probed, outcome),
                    !.secops_results = Layer11Results(probed, outcome)]
             /\ Advance("layer11", Walked("layer11", Exclude_layer11),
                        <<[probed |-> probed, outcome |-> outcome]>>)
    /\ reports' = HeldReports(self', FALSE)
    /\ UNCHANGED <<env, analyzers, task>>

Layer7 ==
    /\ At("layer7")
    /\ self' = [self EXCEPT !.dependency_graph = Layer7Graph(tree)]
    /\ Advance("layer7", Walked("layer7", Exclude_layer7), <<>>)
    /\ reports' = HeldReports(self', FALSE)
    /\ UNCHANGED <<env, analyzers, task>>

CalculateFinalScore ==
    /\ At("score")
    /\ LET avg == self.complexity_results.average_complexity_x100
           ratio == self.duplication_results.duplication_ratio_x100
           score == FinalScore(self.static_findings, self.structural_findings,
                               self.security_findings, avg, ratio)
       IN  self' = [self EXCEPT
               !.overall_score = score,
               !.maturity_label = MaturityLabel(score),
               !.score_breakdown =
                   ScoreBreakdown(self.static_findings, self.structural_findings,
                                  self.security_findings, avg, ratio)]
    /\ Advance("score", <<>>, <<>>)
    /\ reports' = HeldReports(self', FALSE)
    /\ UNCHANGED <<env, analyzers, task>>

\* _run_layer4b_tech_recommendations: the recommender's result is stored,
\* then _log runs inside the try block; when the observer raises there,
\* the handler logs a warning (the observer may raise again, and that
\* exception leaves analyze()) and stores the error.
Layer4b ==
    /\ At("layer4b")
    /\ \E first \in ObserverOutcomes :
          IF first = "returns"
          THEN /\ self' = [self EXCEPT
                      !.tech_recommendations = "generated",
                      !.logs = Append(@, "Tech Stack Recommendations generated.")]
               /\ Advance("layer4b", <<>>, <<"observer returns">>)
          ELSE \E second \in ObserverOutcomes :
                  IF second = "returns"
                  THEN /\ self' = [self EXCEPT
                              !.tech_recommendations = "error",
                              !.logs = @ \o <<"Tech Stack Recommendations generated.",
                                              "Warning: Tech recommendations failed">>]
                       /\ pc' = pc + 1
                       /\ status' = "running"
                       /\ history' = [history EXCEPT
                              !.steps = Append(@, "layer4b"),
                              !.observer_raised = @ + 1,
                              !.answers = Append(@, "observer raises")]
                  ELSE /\ self' = [self EXCEPT
                              !.tech_recommendations = "generated",
                              !.logs = @ \o <<"Tech Stack Recommendations generated.",
                                              "Warning: Tech recommendations failed">>]
                       /\ pc' = pc
                       /\ status' = "raised"
                       /\ history' = [history EXCEPT !.observer_raised = @ + 2]
    /\ reports' = HeldReports(self', FALSE)
    /\ UNCHANGED <<env, analyzers, task>>

\* What brain.analyze_repository can give back: an error dict (also when
\* the call raises), or the JSON object of the AI service's answer: an
\* analysis with or without an engineering_roadmap, or one whose
\* executive_summary is the JSON null.
BrainOutcomes ==
    {"error", "analysis", "analysis without roadmap", "analysis with null summary"}

AISummary == [variant |-> "AI executive summary", stack_str |-> <<>>, note |-> ""]

\* Python's None where a summary is expected.
NullSummary == [variant |-> "None", stack_str |-> <<>>, note |-> ""]

\* _run_layer6_semantic_analysis.  Each of its paths ends in one _log call.
Layer6 ==
    /\ At("layer6")
    /\ \E brain \in (IF brain_client THEN BrainOutcomes ELSE {"skipped"}) :
       \E observer \in ObserverOutcomes :
          /\ self' =
                IF brain = "skipped"
                THEN [self EXCEPT !.logs = Append(@, "AI Engine skipped (Key missing).")]
                ELSE IF brain = "error"
                THEN [self EXCEPT !.ai_analysis = "error",
                                  !.logs = Append(@, "AI Warning")]
                ELSE [self EXCEPT
                        !.ai_analysis = "analysis",
                        !.roadmap = IF brain # "analysis without roadmap"
                                    THEN <<[title |-> "AI engineering roadmap"]>> ELSE @,
                        !.structured_critique =
                            [executive_summary |->
                                 IF brain = "analysis with null summary"
                                 THEN NullSummary ELSE AISummary,
                             technical_debt |-> <<DebtItem("AI technical debt", 0)>>],
                        !.critique = IF brain = "analysis with null summary"
                                     THEN NullSummary ELSE AISummary,
                        !.logs = Append(@, "AI Architect review finalized.")]
          /\ IF observer = "returns"
             THEN Advance("layer6",
                          IF brain_client THEN Walked("layer6", Exclude_layer1) ELSE <<>>,
                          <<brain>>)
             ELSE /\ pc' = pc
                  /\ status' = "raised"
                  /\ history' = [history EXCEPT !.observer_raised = @ + 1]
    /\ reports' = HeldReports(self', FALSE)
    /\ UNCHANGED <<env, analyzers, task>>

\* `return {...}`
Return ==
    /\ At("return")
    /\ reports' = Append(reports, [by |-> analyzers, value |-> Report(self)])
    /\ status' = "returned"
    /\ pc' = pc + 1
    /\ history' = [history EXCEPT !.steps = Append(@, "return")]
    /\ UNCHANGED <<env, self, analyzers, task>>

\* analyze() is called a second time on the same RepositoryAnalyzer.
AnalyzeAgain ==
    /\ status = "returned"
    /\ Len(reports) = 1
    /\ pc' = 1
    /\ status' = "running"
    /\ history' = [NoHistory EXCEPT !.previous = history.answers]
    /\ UNCHANGED <<env, self, reports, analyzers, task>>

\* RepositoryAnalyzer(target_dir, on_progress).analyze(): a second run, on
\* a new object, in the same worker process or in another one.
AnalyzeFresh ==
    /\ status = "returned"
    /\ Len(reports) = 1
    /\ self' = NewAnalyzerState
    /\ analyzers' = analyzers + 1
    /\ hash_order' \in HashOrders
    /\ pc' = 1
    /\ status' = "running"
    /\ history' = [NoHistory EXCEPT !.previous = history.answers]
    /\ UNCHANGED <<repo, reports, task>>

\* One call of analyze().
Next ==
    \/ LogStep
    \/ Layer1
    \/ Layer2
    \/ Layer3
    \/ Layer5
    \/ Layer8
    \/ Layer9
    \/ Layer10
    \/ Layer11
    \/ Layer7
    \/ CalculateFinalScore
    \/ Layer4b
    \/ Layer6
    \/ Return

\* Two calls of analyze() over one tree.
NextRuns ==
    \/ Next
    \/ AnalyzeAgain
    \/ AnalyzeFresh

(***************************************************************************)
(* The worker task clone_repository (backend/app/worker/tasks.py): it      *)
(* clones, builds a RepositoryAnalyzer with on_analysis_progress as its    *)
(* observer, runs analyze() and records the outcome in the repository row. *)
(* The worker's soft time limit raises SoftTimeLimitExceeded, a subclass   *)
(* of Exception, at whatever statement the task is executing.              *)
(***************************************************************************)
\* The task body is entered.
NewTask == [phase |-> "cloning", repo_status |-> "pending", limit |-> "armed"]

\* `git clone` returns, the status becomes CLONING, the analyzer is built
\* and analyze() is entered.
CloneSucceeds ==
    /\ task.phase = "cloning"
    /\ task' = [task EXCEPT !.phase = "analyzing", !.repo_status = "cloning"]
    /\ self' = NewAnalyzerState
    /\ pc' = 1
    /\ status' = "running"
    /\ UNCHANGED <<env, reports, analyzers, history>>

\* subprocess.check_call raises: `except Exception` records FAILED.
CloneFails ==
    /\ task.phase = "cloning"
    /\ task' = [task EXCEPT !.phase = "done", !.repo_status = "failed"]
    /\ UNCHANGED <<env, self, pc, status, reports, analyzers, history>>

\* analyze() has returned: update_status(COMPLETED, ...) and the task ends.
TaskCompletes ==
    /\ task.phase = "analyzing"
    /\ status = "returned"
    /\ task' = [task EXCEPT !.phase = "done", !.repo_status = "completed"]
    /\ UNCHANGED <<env, self, pc, status, reports, analyzers, history>>

\* SoftTimeLimitExceeded is raised at a statement that no try block of the
\* analyzer or of the callback encloses (during the clone, between two
\* statements of analyze(), or before the COMPLETED update): it reaches
\* `except SoftTimeLimitExceeded`, which records FAILED.
TimeLimitRaised ==
    /\ task.limit = "armed"
    /\ task.phase \in {"cloning", "analyzing"}
    /\ task' = [task EXCEPT !.phase = "done", !.repo_status = "failed", !.limit = "raised"]
    /\ status' = IF status = "running" THEN "raised" ELSE status
    /\ UNCHANGED <<env, self, pc, reports, analyzers, history>>

\* SoftTimeLimitExceeded is raised while a _log statement of analyze() is
\* inside on_analysis_progress: its `except Exception` (or the bare except
\* of its fallback) catches it, the callback returns and analyze() goes on.
TimeLimitInCallback ==
    /\ task.limit = "armed"
    /\ task.phase = "analyzing"
    /\ on_progress = "on_analysis_progress"
    /\ status = "running"
    /\ pc \in DOMAIN AnalyzeSteps
    /\ AnalyzeSteps[pc] \notin LayerSteps
    /\ self' = [self EXCEPT !.logs = Append(@, AnalyzeSteps[pc])]
    /\ Advance(AnalyzeSteps[pc], <<>>, <<>>)
    /\ task' = [task EXCEPT !.limit = "swallowed"]
    /\ reports' = HeldReports(self', FALSE)
    /\ UNCHANGED <<env, analyzers>>

\* SoftTimeLimitExceeded is raised while layer 9 is inside the try block of
\* one Python file, before it has counted a function of that file (in
\* open, read or ast.parse): `except: pass` drops it and the walk goes on
\* with the next file.
TimeLimitInScan ==
    /\ task.limit = "armed"
    /\ task.phase = "analyzing"
    /\ At("layer9")
    /\ \E k \in DOMAIN tree :
          /\ ~Skipped(Exclude_layer9, tree[k].dir)
          /\ EndsWith(tree[k].name, x_py)
          /\ LET results == Layer9Results([tree EXCEPT ![k].ast.ok = FALSE])
             IN  self' = [self EXCEPT
                     !.complexity_results = results,
                     !.structured_critique.technical_debt =
                         IF results.average_complexity_x100 > 1000
                         THEN Append(@, DebtItem("High Complexity",
                                                 results.average_complexity_x100))
                         ELSE @]
    /\ Advance("layer9", Walked("layer9", Exclude_layer9), <<>>)
    /\ task' = [task EXCEPT !.limit = "swallowed"]
    /\ reports' = HeldReports(self', FALSE)
    /\ UNCHANGED <<env, analyzers>>

\* One execution of the task.
NextTask ==
    \/ CloneSucceeds
    \/ CloneFails
    \/ Next
    \/ TimeLimitRaised
    \/ TimeLimitInCallback
    \/ TimeLimitInScan
    \/ TaskCompletes

(***************************************************************************)
(* The trees the runs are checked on.                                      *)
(***************************************************************************)
Hit(pat, end) == [pat |-> pat, end |-> end]
Match(text, end) == [text |-> text, end |-> end]
Import(target, end) == [target |-> target, end |-> end]
Function(name, parent, body) == [name |-> name, parent |-> parent, body |-> body]

\* An empty, readable file.
EmptyFile(dir, name) ==
    [dir |-> dir, name |-> name, readable |-> TRUE, hits |-> {}, domains |-> <<>>,
     lines |-> <<>>, ast |-> [ok |-> TRUE, funcs |-> <<>>], imports |-> <<>>,
     json_ok |-> TRUE, deps |-> {}]

\* os.walk is top-down: a directory's files come in one block, before the
\* files of its subdirectories, and each subtree comes in one block.  No two
\* files share a path.
HasPrefix(dir, n, other) == Len(other) >= n /\ SubSeq(other, 1, n) = SubSeq(dir, 1, n)

WalkOrder(t) ==
    /\ \A i, j \in DOMAIN t : i # j => RelPath(t[i]) # RelPath(t[j])
    /\ \A i, j \in DOMAIN t :
          i < j => ~(Len(t[j].dir) < Len(t[i].dir)
                     /\ HasPrefix(t[j].dir, Len(t[j].dir), t[i].dir))
    /\ \A i, j, k \in DOMAIN t :
          i < j /\ j < k =>
             \A n \in 1..Len(t[i].dir) :
                HasPrefix(t[i].dir, n, t[k].dir) => HasPrefix(t[i].dir, n, t[j].dir)

Trees(universe, n) == {t \in UNION {[1..k -> universe] : k \in 0..n} : WalkOrder(t)}

\* The child directories of the root that the files of a tree lie in.
TopSegments(t) == {t[i].dir[1] : i \in {j \in DOMAIN t : t[j].dir # <<>>}}

d_a_io == <<"a", ".", "i", "o">>
d_b_io == <<"b", ".", "i", "o">>
d_api_github_com == <<"a", "p", "i", ".", "g", "i", "t", "h", "u", "b", ".", "c", "o", "m">>
f_a_py == <<"a", ".", "p", "y">>
f_b_py == <<"b", ".", "p", "y">>
f_env == <<".", "e", "n", "v">>
f_ci_yml == <<"c", "i", ".", "y", "m", "l">>
n_react_dom == <<"r", "e", "a", "c", "t", "-", "d", "o", "m">>
n_ts_jest == <<"t", "s", "-", "j", "e", "s", "t">>

SixLines == <<<<"a">>, <<"b">>, <<"c">>, <<"d">>, <<"e">>, <<"f">>>>

SampleFiles ==
    {[EmptyFile(<<>>, f_a_py) EXCEPT
         !.hits = {Hit("AWS Access Key", 20), Hit("AWS Access Key", 300),
                   Hit("Insecure eval()", 120), Hit("numpy", 60), Hit("pandas", 80)},
         !.domains = <<Match(d_a_io, 400), Match(d_api_github_com, 450)>>,
         !.lines = SixLines,
         !.ast = [ok |-> TRUE,
                  funcs |-> <<Function("f", 0, <<"If", "For", "Or", "Return">>),
                              Function("g", 1, <<"If">>)>>],
         !.imports = <<Import(<<"b">>, 10)>>],
     [EmptyFile(<<>>, f_b_py) EXCEPT
         !.hits = {Hit("Insecure eval()", 40)},
         !.lines = <<<<" ", "a">>, <<"#", "x">>>> \o Tail(SixLines) \o <<<<"g">>>>],
     [EmptyFile(<<>>, f_env) EXCEPT
         !.hits = {Hit("AWS Access Key", 20)},
         !.domains = <<Match(d_b_io, 30)>>],
     EmptyFile(<<>>, f_nginx_conf),
     [EmptyFile(<<>>, f_httpd_conf) EXCEPT
         !.hits = {Hit("add_header Strict-Transport-Security", 10),
                   Hit("ssl_protocols TLSv1", 90), Hit("gzip on", 120)}],
     [EmptyFile(<<>>, f_requirements_txt) EXCEPT
         !.hits = {Hit("Insecure requests version", 30), Hit("pytest", 60),
                   Hit("AWS Access Key", 5010)}],
     [EmptyFile(<<s_src>>, f_a_py) EXCEPT
         !.readable = FALSE,
         !.hits = {Hit("AWS Access Key", 20)}],
     EmptyFile(<<>>, f_README_md),
     EmptyFile(<<s_src>>, f_Dockerfile),
     [EmptyFile(<<s_venv>>, f_a_py) EXCEPT !.hits = {Hit("Private Key", 30)}],
     [EmptyFile(<<s_github>>, f_ci_yml) EXCEPT !.hits = {Hit("GitHub Token", 40)}],
     [EmptyFile(<<>>, f_package_json) EXCEPT !.deps = {n_react_dom, n_ts_jest}]}

\* Child directories of the root besides those the files lie in.
ExtraDirs == {{}, {s_app, s_core, s_db}}

\* A new analyzer about to run analyze().
Start ==
    /\ self = NewAnalyzerState
    /\ pc = 1
    /\ status = "running"
    /\ reports = <<>>
    /\ analyzers = 1
    /\ history = NoHistory
    /\ task = NoTask

Init ==
    /\ tree \in Trees(SampleFiles, MaxFiles)
    /\ listing \in {[ok |-> TRUE, dirs |-> TopSegments(tree) \cup extra] : extra \in ExtraDirs}
    /\ on_progress \in {"none", "callback"}
    /\ brain_client \in BOOLEAN
    /\ hash_order \in HashOrders
    /\ Start

Spec == Init /\ [][Next]_vars

(***************************************************************************)
(* Properties of one call of analyze() (checked under Spec).               *)
(***************************************************************************)
\* The position of a file's path in the walk (0 when the tree has no such
\* file).
WalkIndex(path) ==
    IF \E i \in DOMAIN tree : RelPath(tree[i]) = path
    THEN CHOOSE i \in DOMAIN tree : RelPath(tree[i]) = path
    ELSE 0

\* C3: when the progress observer raises on one of its invocations,
\* analyze() does not end in that exception, and the report it returns is
\* the one a never-raising observer gives (the tech recommendations are
\* generated, not replaced by an error).
C3_ObserverFailureDoesNotAffectRun ==
    history.observer_raised > 0 =>
        /\ status # "raised"
        /\ status = "returned" =>
               reports[Len(reports)].value.tech_recommendations = "generated"

\* The layers the score is computed from.
ScoredLayers == {"layer5", "layer8", "layer11", "layer9", "layer10"}

\* The statements of the tech-recommendation and semantic-analysis steps.
NarrativeSteps ==
    {"Phase Nu: Generating Tech Stack Recommendations...", "layer4b",
     "Phase Zeta: Running Deep Semantic Audit (AI Architect)...", "layer6"}

\* C4: the score calculation starts only once the security scan, the infra
\* audit, the SecOps audit, the complexity analysis and the duplication
\* scan have completed, and the tech-recommendation and semantic-analysis
\* steps start only once the score calculation has completed.
C4_ScoreAfterScansBeforeNarrative ==
    /\ At("score") => ScoredLayers \subseteq Range(history.steps)
    /\ (\E step \in NarrativeSteps : At(step)) => "score" \in Range(history.steps)
    /\ \A i \in DOMAIN history.steps :
          /\ history.steps[i] = "score" =>
                \A layer \in ScoredLayers : \E j \in 1..(i - 1) : history.steps[j] = layer
          /\ history.steps[i] \in NarrativeSteps =>
                \E j \in 1..(i - 1) : history.steps[j] = "score"

\* A run whose semantic analysis has completed, with a score computed.
C4_Witness ==
    /\ "layer6" \in Range(history.steps)
    /\ self.score_breakdown.architecture > 0

\* The sub-scan a finding comes from, in the order the spec lists them.
SubScan(finding) ==
    CASE finding.type = "Secret Leak" -> 1
      [] finding.type = "Vulnerability (SAST)" -> 2
      [] finding.type = "Vulnerable Dependency" -> 3
      [] finding.type \in {"Infrastructure Gap", "Security Risk"} -> 4
      [] finding.type = "SecOps Risk" -> 5

\* C5 as stated: in security_findings every secret finding precedes every
\* SAST finding, every SAST finding every dependency finding, every
\* dependency finding every infra finding, and every infra finding every
\* SecOps finding.
C5_SubScanOrder ==
    \A i, j \in DOMAIN self.security_findings :
        i < j => SubScan(self.security_findings[i]) <= SubScan(self.security_findings[j])

\* A finding of layer 5 (secrets, SAST, dependencies) as against one of the
\* infra audit (2) or the SecOps audit (3).
ScanLayer(finding) ==
    IF SubScan(finding) <= 3 THEN 1 ELSE IF SubScan(finding) = 4 THEN 2 ELSE 3

\* C5 amended: the findings of layer 5 precede the infra findings, which
\* precede the SecOps findings; the findings of layer 5 come file by file
\* in walk order, and for one file the secret findings precede the SAST
\* findings, which precede the dependency findings.
C5_ScanOrderPerFile ==
    \A i, j \in DOMAIN self.security_findings :
        i < j =>
            LET a == self.security_findings[i]
                b == self.security_findings[j]
            IN  /\ ScanLayer(a) <= ScanLayer(b)
                /\ (ScanLayer(a) = 1 /\ ScanLayer(b) = 1) =>
                       /\ WalkIndex(a.file) <= WalkIndex(b.file)
                       /\ a.file = b.file => SubScan(a) <= SubScan(b)

\* A run in which one file gave a secret and a SAST finding, and the infra
\* and SecOps audits added findings too.
C5_Witness ==
    /\ "layer11" \in Range(history.steps)
    /\ \E i, j \in DOMAIN self.security_findings :
          /\ self.security_findings[i].file = self.security_findings[j].file
          /\ SubScan(self.security_findings[i]) = 1
          /\ SubScan(self.security_findings[j]) = 2
    /\ \E i, j \in DOMAIN self.security_findings :
          /\ SubScan(self.security_findings[i]) = 4
          /\ SubScan(self.security_findings[j]) = 5

\* C7 as stated: security_findings holds at most one finding for each
\* (label, file) pair.
C7_OneFindingPerLabelAndFile ==
    \A i, j \in DOMAIN self.security_findings :
        (/\ self.security_findings[i].label = self.security_findings[j].label
         /\ self.security_findings[i].file = self.security_findings[j].file) => i = j

\* The patterns of layer 5 that match in the text layer 5 reads of a file
\* it scans: [type, label].
MatchedPatterns(f) ==
    IF Skipped(Exclude_layer5, f.dir) \/ ~f.readable
       \/ ~EndsWithAny(f.name, Layer5Extensions)
    THEN {}
    ELSE {[type |-> "Secret Leak", label |-> secret_patterns[k]] :
             k \in {n \in DOMAIN secret_patterns :
                       \E h \in f.hits : h.pat = secret_patterns[n] /\ h.end <= ReadLimit5000}}
         \cup {[type |-> "Vulnerability (SAST)", label |-> sast_patterns[k]] :
             k \in {n \in DOMAIN sast_patterns :
                       /\ EndsWithAny(f.name, SastExtensions)
                       /\ \E h \in f.hits : h.pat = sast_patterns[n] /\ h.end <= ReadLimit5000}}
         \cup {[type |-> "Vulnerable Dependency", label |-> vuln_sigs[k]] :
             k \in {n \in DOMAIN vuln_sigs :
                       /\ f.name \in {f_requirements_txt, f_package_json}
                       /\ \E h \in f.hits : h.pat = vuln_sigs[n] /\ h.end <= ReadLimit5000}}

\* C7 amended: among the findings of the file scans (secrets, SAST,
\* dependencies, infra) there is at most one for each (label, file) pair,
\* however often the pattern matches, and a file matched by k distinct
\* patterns of layer 5 has k findings of layer 5; the SecOps audit adds one
\* finding per expiring domain, all with the same label and file, each with
\* its own description.
C7_OneFindingPerPatternAndFile ==
    /\ \A i, j \in DOMAIN self.security_findings :
          (/\ self.security_findings[i].label = self.security_findings[j].label
           /\ self.security_findings[i].file = self.security_findings[j].file
           /\ self.security_findings[i].description = self.security_findings[j].description)
          => i = j
    /\ \A i, j \in DOMAIN self.security_findings :
          (/\ SubScan(self.security_findings[i]) # 5
           /\ self.security_findings[i].label = self.security_findings[j].label
           /\ self.security_findings[i].file = self.security_findings[j].file) => i = j
    /\ "layer5" \in Range(history.steps) =>
          \A k \in DOMAIN tree :
             Cardinality({i \in DOMAIN self.security_findings :
                            /\ ScanLayer(self.security_findings[i]) = 1
                            /\ self.security_findings[i].file = RelPath(tree[k])})
             = Cardinality(MatchedPatterns(tree[k]))

\* A run over a file in which one pattern matches twice and another
\* pattern matches too: the file has two findings.
C7_Witness ==
    /\ "layer11" \in Range(history.steps)
    /\ \E k \in DOMAIN tree :
          /\ \E g, h \in tree[k].hits : g.pat = h.pat /\ g.end < h.end /\ h.end <= ReadLimit5000
          /\ Cardinality(MatchedPatterns(tree[k])) = 2
          /\ Cardinality({i \in DOMAIN self.security_findings :
                            self.security_findings[i].file = RelPath(tree[k])}) = 2

(***************************************************************************)
(* _calculate_final_score on its own: the analyzer is about to execute it, *)
(* with inputs drawn from the values the earlier layers can leave.         *)
(***************************************************************************)
ScorePc == CHOOSE i \in DOMAIN AnalyzeSteps : AnalyzeSteps[i] = "score"

\* The labels layer 2 can put in patterns_detected.
PatternLabels ==
    [i \in DOMAIN StructuralPatterns |-> StructuralPatterns[i].label]
    \o <<"Microservices / Multi-Repo Layout">>

\* One finding of each severity the scans give.
ScoreFindings ==
    {Finding("Secret Leak", "CRITICAL", "AWS Access Key", f_a_py, "AWS Access Key"),
     Finding("Vulnerability (SAST)", "HIGH", "Insecure eval()", f_a_py, "Insecure eval()"),
     Finding("Infrastructure Gap", "MEDIUM", "Missing HSTS", f_nginx_conf, "Missing HSTS")}

\* Averages and ratios (in hundredths) on both sides of each threshold.
ComplexityInputs == {0, 800, 801, 1500, 1501}
DuplicationInputs == {0, 500, 501, 1500, 1501}

InitScore ==
    /\ tree = <<>>
    /\ listing = [ok |-> TRUE, dirs |-> {}]
    /\ on_progress = "none"
    /\ brain_client = FALSE
    /\ hash_order = "forward"
    /\ \E docker, ci_cd, readme, gitignore, tests \in BOOLEAN,
          patterns \in 0..Len(PatternLabels),
          modularity \in {20, 50, 80},
          findings \in UNION {[1..n -> ScoreFindings] : n \in 0..MaxScoreFindings},
          avg \in ComplexityInputs,
          ratio \in DuplicationInputs :
          self = [NewAnalyzerState EXCEPT
                     !.static_findings.standards.has_docker = docker,
                     !.static_findings.standards.has_ci_cd = ci_cd,
                     !.static_findings.standards.has_readme = readme,
                     !.static_findings.standards.has_gitignore = gitignore,
                     !.static_findings.testing.detected = tests,
                     !.structural_findings.patterns_detected = Take(PatternLabels, patterns),
                     !.structural_findings.modularity_score = modularity,
                     !.security_findings = findings,
                     !.complexity_results.average_complexity_x100 = avg,
                     !.duplication_results.duplication_ratio_x100 = ratio,
                     !.logs = SelectSeq(SubSeq(AnalyzeSteps, 1, ScorePc - 1),
                                        LAMBDA step : step \notin LayerSteps)]
    /\ pc = ScorePc
    /\ status = "running"
    /\ reports = <<>>
    /\ analyzers = 1
    /\ history = [NoHistory EXCEPT !.steps = SubSeq(AnalyzeSteps, 1, ScorePc - 1)]
    /\ task = NoTask

SpecScore == InitScore /\ [][CalculateFinalScore]_vars

\* How many findings of a severity the list holds.
CountSeverity(findings, severity) ==
    Cardinality({i \in DOMAIN findings : findings[i].severity = severity})

\* The score the spec's formula gives for the analyzer's inputs, before
\* clamping: base - security_penalty - complexity_penalty -
\* duplication_penalty.
ClaimedDifference ==
    LET stds == self.static_findings.standards
        infra == (IF stds.has_docker THEN 15 ELSE 0) + (IF stds.has_ci_cd THEN 15 ELSE 0)
        standards_tests ==
            (IF stds.has_readme THEN 5 ELSE 0) + (IF stds.has_gitignore THEN 5 ELSE 0)
            + (IF self.static_findings.testing.detected THEN 20 ELSE 0)
        count == Len(self.structural_findings.patterns_detected)
        architecture ==
            (IF count >= 3 THEN 30 ELSE 10 * count)
            + self.structural_findings.modularity_score \div 10
        security_penalty ==
            30 * CountSeverity(self.security_findings, "CRITICAL")
            + 15 * CountSeverity(self.security_findings, "HIGH")
        avg == self.complexity_results.average_complexity_x100
        ratio == self.duplication_results.duplication_ratio_x100
        complexity_penalty == IF avg > 1500 THEN 15 ELSE IF avg > 800 THEN 5 ELSE 0
        duplication_penalty == IF ratio > 1500 THEN 15 ELSE IF ratio > 500 THEN 5 ELSE 0
    IN  infra + standards_tests + architecture
        - security_penalty - complexity_penalty - duplication_penalty

\* C1: once _calculate_final_score has run, overall_score is
\* clamp(base - security_penalty - complexity_penalty -
\* duplication_penalty, 0, 100), an integer in [0,100], whatever the
\* standards flags, testing.detected, pattern count, modularity score,
\* findings, average complexity and duplication ratio.
C1_ScoreIsClampedDifference ==
    pc = ScorePc + 1 =>
        /\ self.overall_score \in 0..100
        /\ self.overall_score =
               IF ClaimedDifference < 0 THEN 0
               ELSE IF ClaimedDifference > 100 THEN 100 ELSE ClaimedDifference

\* The score has been computed from penalties that exceed the base, on
\* inputs at a threshold of each penalty.
C1_Witness ==
    /\ pc = ScorePc + 1
    /\ ClaimedDifference < 0
    /\ self.overall_score = 0
    /\ self.complexity_results.average_complexity_x100 = 1500
    /\ self.duplication_results.duplication_ratio_x100 = 501

(***************************************************************************)
(* The duplication scan over one source file of up to MaxLines lines.      *)
(***************************************************************************)
\* A line of code, an indented one, and a comment.
RawLines == {<<"x">>, <<" ", "y">>, <<"#">>}

InitDup ==
    /\ \E lines \in UNION {[1..n -> RawLines] : n \in 0..MaxLines} :
          tree = <<[EmptyFile(<<>>, f_a_py) EXCEPT !.lines = lines]>>
    /\ listing = [ok |-> TRUE, dirs |-> {}]
    /\ on_progress = "none"
    /\ brain_client = FALSE
    /\ hash_order = "forward"
    /\ Start

\* analyze() up to the duplication scan.
NextDup ==
    \/ LogStep
    \/ Layer1
    \/ Layer2
    \/ Layer3
    \/ Layer5
    \/ Layer8
    \/ Layer9
    \/ Layer10

SpecDup == InitDup /\ [][NextDup]_vars

\* C2: the duplication_ratio the duplication scan reports is within
\* [0,100] (here in hundredths of a percent).
C2_DuplicationRatioIsAPercentage ==
    "layer10" \in Range(history.steps) =>
        /\ self.duplication_results.duplication_ratio_x100 >= 0
        /\ self.duplication_results.duplication_ratio_x100 <= 10000

(***************************************************************************)
(* The secret scan over files that hold AWS-access-key-shaped tokens:      *)
(* analyze() up to layer 5, over files of several names and directories    *)
(* with the token at several offsets.                                      *)
(***************************************************************************)
f_key_pem == <<"k", "e", "y", ".", "p", "e", "m">>

SecretDirs == {<<>>, <<s_src>>, <<s_github>>, <<s_venv>>, <<s_node_modules>>}

SecretNames == {f_a_py, f_env, f_key_pem}

\* Where the tokens of a file end: early in the file, exactly at the end of
\* the prefix layer 5 reads, and past it.
TokenEnds == {{20}, {5000}, {5020}, {20, 300}, {20, 5020}, {}}

SecretFiles ==
    {[EmptyFile(dir, name) EXCEPT
         !.readable = readable,
         !.hits = {Hit("AWS Access Key", end) : end \in ends}] :
      dir \in SecretDirs, name \in SecretNames, readable \in BOOLEAN, ends \in TokenEnds}

InitSecrets ==
    /\ tree \in Trees(SecretFiles, MaxSecretFiles)
    /\ listing = [ok |-> TRUE, dirs |-> TopSegments(tree)]
    /\ on_progress = "none"
    /\ brain_client = FALSE
    /\ hash_order = "forward"
    /\ Start

\* analyze() up to the security scan.
NextSecrets ==
    \/ LogStep
    \/ Layer1
    \/ Layer2
    \/ Layer3
    \/ Layer5

SpecSecrets == InitSecrets /\ [][NextSecrets]_vars

\* The directories the spec excludes: a path segment that is one of these.
ExcludedSegments == {s_git, s_node_modules, s_pycache, s_venv, s_dotvenv}

InExcludedDirectory(f) == \E k \in DOMAIN f.dir : f.dir[k] \in ExcludedSegments

\* The findings labelled 'AWS Access Key' for a file.
AwsFindings(f) ==
    {i \in DOMAIN self.security_findings :
        /\ self.security_findings[i].label = "AWS Access Key"
        /\ self.security_findings[i].file = RelPath(f)}

ExactlyOneAwsFinding(f) ==
    /\ Cardinality(AwsFindings(f)) = 1
    /\ \A i \in AwsFindings(f) : self.security_findings[i].severity = "CRITICAL"

ReadByLayer5(f) ==
    /\ ~\E x \in {s_git, s_node_modules, s_pycache} : Contains(x, WalkRoot(f.dir))
    /\ \E x \in Layer5Extensions : EndsWith(f.name, x)
    /\ f.readable

WalkSegments ==
    {s_git, s_github, s_node_modules, s_pycache, s_venv, s_dotvenv, s_myvenv, s_src}

WalkDirs == {<<>>} \cup {<<a>> : a \in WalkSegments}
            \cup {<<a, b>> : a \in WalkSegments, b \in WalkSegments}

WalkFiles == {EmptyFile(dir, name) : dir \in WalkDirs, name \in {f_a_py, f_nginx_conf}}

InitWalk ==
    /\ \E f \in WalkFiles : tree = <<f>>
    /\ listing = [ok |-> TRUE, dirs |-> TopSegments(tree)]
    /\ on_progress = "none"
    /\ brain_client \in BOOLEAN
    /\ hash_order = "forward"
    /\ Start

SpecWalk == InitWalk /\ [][Next]_vars

\* The layers C6 names: stack, security, infra, complexity, duplication,
\* SecOps, dependency graph.
WalkingLayers == {"layer1", "layer5", "layer8", "layer9", "layer10", "layer11", "layer7"}

\* C6: the walk of each layer reaches a file if and only if no directory
\* name between the root and the file is one of .git, node_modules,
\* __pycache__, venv, .venv.
C6_WalksSkipExactlyTheExcludedSegments ==
    \A i \in DOMAIN history.walked :
        history.walked[i].layer \in WalkingLayers =>
            history.walked[i].paths =
                {RelPath(tree[k]) : k \in {j \in DOMAIN tree : ~InExcludedDirectory(tree[j])}}

(***************************************************************************)
(* Two runs over one unchanged tree: analyze() twice on one analyzer, or   *)
(* once on each of two analyzers.                                          *)
(***************************************************************************)
RunFiles == {f \in SampleFiles : f.dir = <<>> /\ f.name \in {f_a_py, f_b_py, f_nginx_conf, f_requirements_txt}}

InitRuns ==
    /\ tree \in Trees(RunFiles, MaxFiles)
    /\ listing = [ok |-> TRUE, dirs |-> TopSegments(tree)]
    /\ on_progress \in {"none", "callback"}
    /\ brain_client \in BOOLEAN
    /\ hash_order \in HashOrders
    /\ Start

SpecRuns == InitRuns /\ [][NextRuns]_vars

\* C9: when analyze() has been called twice on one RepositoryAnalyzer, the
\* network, the AI service and the observer answering the second call as
\* they answered the first, the second report's security_findings, logs,
\* actionable_roadmap, score_breakdown and overall_score equal the first
\* report's.
C9_SecondCallReportsTheSame ==
    (/\ Len(reports) = 2
     /\ reports[1].by = reports[2].by
     /\ history.answers = history.previous) =>
        /\ reports[2].value.security_findings = reports[1].value.security_findings
        /\ reports[2].value.logs = reports[1].value.logs
        /\ reports[2].value.actionable_roadmap = reports[1].value.actionable_roadmap
        /\ reports[2].value.score_breakdown = reports[1].value.score_breakdown
        /\ reports[2].value.overall_score = reports[1].value.overall_score

\* C10: two runs, each on a new analyzer, over the unchanged tree report
\* the same stack categories, standards flags, structural profile,
\* complexity report, duplication report and dependency graph.
C10_FreshRunsReportTheSame ==
    (/\ Len(reports) = 2
     /\ reports[1].by # reports[2].by
     /\ history.answers = history.previous) =>
        /\ reports[2].value.static_scan.categories = reports[1].value.static_scan.categories
        /\ reports[2].value.static_scan.standards = reports[1].value.static_scan.standards
        /\ reports[2].value.structural_evaluation = reports[1].value.structural_evaluation
        /\ reports[2].value.complexity = reports[1].value.complexity
        /\ reports[2].value.duplication = reports[1].value.duplication
        /\ reports[2].value.dependency_graph = reports[1].value.dependency_graph

(***************************************************************************)
(* One execution of the clone_repository task under a soft time limit.     *)
(***************************************************************************)
InitTask ==
    /\ tree \in Trees(RunFiles, MaxFiles)
    /\ listing = [ok |-> TRUE, dirs |-> TopSegments(tree)]
    /\ on_progress = "on_analysis_progress"
    /\ brain_client \in BOOLEAN
    /\ hash_order = "forward"
    /\ self = NewAnalyzerState
    /\ pc = 0
    /\ status = "not called"
    /\ reports = <<>>
    /\ analyzers = 1
    /\ history = NoHistory
    /\ task = NewTask

SpecTask == InitTask /\ [][NextTask]_vars

\* C20: once SoftTimeLimitExceeded has been raised in the task, while it
\* clones or analyzes (inside a progress callback and inside a per-file
\* scan step included), the task does not set the repository's status to
\* COMPLETED, and the status it ends with is FAILED.
C20_TimeLimitEndsInFailure ==
    task.limit \in {"raised", "swallowed"} =>
        /\ task.repo_status # "completed"
        /\ task.phase = "done" => task.repo_status = "failed"

(***************************************************************************)
(* Runs over files that give findings of every sub-scan and severity: a    *)
(* SAST match and a probed domain, a vulnerable dependency, a reverse      *)
(* proxy configuration with a legacy TLS protocol and without HSTS / CSP,  *)
(* and a leaked key.                                                       *)
(***************************************************************************)
PenaltyFiles ==
    {[EmptyFile(<<>>, f_a_py) EXCEPT
         !.hits = {Hit("Insecure eval()", 40)},
         !.domains = <<Match(d_a_io, 400)>>],
     [EmptyFile(<<>>, f_requirements_txt) EXCEPT
         !.hits = {Hit("Insecure requests version", 30)}],
     [EmptyFile(<<>>, f_nginx_conf) EXCEPT
         !.hits = {Hit("ssl_protocols TLSv1", 90)}],
     [EmptyFile(<<>>, f_env) EXCEPT
         !.hits = {Hit("AWS Access Key", 20)}]}

InitPenalty ==
    /\ tree \in Trees(PenaltyFiles, MaxPenaltyFiles)
    /\ listing \in {[ok |-> TRUE, dirs |-> extra] : extra \in ExtraDirs}
    /\ on_progress = "none"
    /\ brain_client = FALSE
    /\ hash_order = "forward"
    /\ Start

SpecPenalty == InitPenalty /\ [][Next]_vars

\* The score the breakdown's three positive terms and its complexity and
\* duplication terms give with a security penalty of `penalty`.
ScoreWithPenalty(penalty) ==
    LET b == self.score_breakdown
        base == Min(100, b.infrastructure + b.standards_tests + b.architecture)
        s1 == Max(0, base - penalty)
        s2 == Max(0, s1 + b.complexity)
    IN  Max(0, s2 + b.duplication)

\* C11: once the score has been computed, the security penalty is 30 times
\* the number of CRITICAL findings plus 15 times the number of HIGH
\* findings of security_findings, whatever sub-scan a HIGH finding comes
\* from; MEDIUM and LOW findings add nothing to the penalty and leave
\* overall_score as it is without them.
C11_PenaltyCountsCriticalAndHigh ==
    "score" \in Range(history.steps) =>
        LET penalty == 30 * CountSeverity(self.security_findings, "CRITICAL")
                       + 15 * CountSeverity(self.security_findings, "HIGH")
        IN  /\ self.score_breakdown.security = 0 - penalty
            /\ self.overall_score = ScoreWithPenalty(penalty)

\* The score has been computed from HIGH findings of the SAST, dependency,
\* infra and SecOps sub-scans, next to a MEDIUM finding, over a base of 35.
C11_Witness ==
    /\ "score" \in Range(history.steps)
    /\ \A type \in {"Vulnerability (SAST)", "Vulnerable Dependency", "Security Risk",
                    "SecOps Risk"} :
          \E i \in DOMAIN self.security_findings :
             /\ self.security_findings[i].type = type
             /\ self.security_findings[i].severity = "HIGH"
    /\ \E i \in DOMAIN self.security_findings : self.security_findings[i].severity = "MEDIUM"
    /\ self.score_breakdown.security = 0 - 60
    /\ self.score_breakdown.architecture = 35

(***************************************************************************)
(* analyze() from _calculate_final_score to its return, with inputs drawn  *)
(* from the values the earlier layers can leave.                           *)
(***************************************************************************)
InitLabel ==
    /\ tree = <<>>
    /\ listing = [ok |-> TRUE, dirs |-> {}]
    /\ on_progress = "none"
    /\ brain_client = FALSE
    /\ hash_order = "forward"
    /\ \E docker, ci_cd, readme, gitignore, tests \in BOOLEAN,
          patterns \in 0..Len(PatternLabels),
          modularity \in {20, 50, 80},
          findings \in UNION {[1..n -> ScoreFindings] : n \in 0..MaxScoreFindings},
          avg \in {0, 801} :
          self = [NewAnalyzerState EXCEPT
                     !.static_findings.standards.has_docker = docker,
                     !.static_findings.standards.has_ci_cd = ci_cd,
                     !.static_findings.standards.has_readme = readme,
                     !.static_findings.standards.has_gitignore = gitignore,
                     !.static_findings.testing.detected = tests,
                     !.structural_findings.patterns_detected = Take(PatternLabels, patterns),
                     !.structural_findings.modularity_score = modularity,
                     !.security_findings = findings,
                     !.complexity_results.average_complexity_x100 = avg,
                     !.logs = SelectSeq(SubSeq(AnalyzeSteps, 1, ScorePc - 1),
                                        LAMBDA step : step \notin LayerSteps)]
    /\ pc = ScorePc
    /\ status = "running"
    /\ reports = <<>>
    /\ analyzers = 1
    /\ history = [NoHistory EXCEPT !.steps = SubSeq(AnalyzeSteps, 1, ScorePc - 1)]
    /\ task = NoTask

\* analyze() from the score calculation on.
NextLabel ==
    \/ CalculateFinalScore
    \/ LogStep
    \/ Layer4b
    \/ Layer6
    \/ Return

SpecLabel == InitLabel /\ [][NextLabel]_vars

\* The label the claim gives for a score.
ClaimedLabel(s, label) ==
    /\ label = "Basic" <=> s <= 40
    /\ label = "Intermediate" <=> (40 < s /\ s <= 65)
    /\ label = "Production" <=> (65 < s /\ s <= 85)
    /\ label = "Enterprise" <=> s > 85

\* C12: once the score has been computed, overall_score is in 0..100 and
\* maturity_label is 'Basic' iff it is <= 40, 'Intermediate' iff it is in
\* 41..65, 'Production' iff it is in 66..85 and 'Enterprise' iff it is
\* above 85; the report analyze() returns carries that score and label,
\* never 'Pending'.
C12_LabelFollowsScore ==
    /\ "score" \in Range(history.steps) =>
          /\ self.overall_score \in 0..100
          /\ ClaimedLabel(self.overall_score, self.maturity_label)
    /\ status = "returned" =>
          LET report == reports[Len(reports)].value
          IN  /\ report.maturity_label # "Pending"
              /\ report.overall_score \in 0..100
              /\ ClaimedLabel(report.overall_score, report.maturity_label)

\* Reports have been returned with scores on either side of a threshold:
\* this one scores 85, 65 or 40.
C12_Witness ==
    /\ status = "returned"
    /\ reports[Len(reports)].value.overall_score \in {40, 65, 85}
    /\ reports[Len(reports)].value.maturity_label \in {"Basic", "Intermediate", "Production"}

(***************************************************************************)
(* The complexity analysis over one Python file of up to MaxFunctions      *)
(* functions, nested or not: analyze() up to layer 9.                      *)
(***************************************************************************)
\* Function bodies: without a decision construct; with one if, one loop
\* and one boolean-or; with eleven ifs; with the other counted constructs
\* next to constructs the code does not count.
SampleBodies ==
    {<<>>,
     <<"Return">>,
     <<"If", "For", "Or">>,
     <<"If", "While", "Or", "IfExp", "Return">>,
     <<"If", "If", "If", "If", "If", "If", "If", "If", "If", "If", "If">>,
     <<"Try", "ExceptHandler", "With", "And", "Assert", "AsyncFor">>}

FunctionNames == <<"f", "g", "h", "k">>

\* The function lists of a file: function i is nested in an earlier one or
\* in none.
SampleFunctions ==
    UNION {{[i \in 1..n |-> Function(FunctionNames[i], parent[i], body[i])] :
               parent \in {p \in [1..n -> 0..n] : \A i \in 1..n : p[i] < i},
               body \in [1..n -> SampleBodies]} :
           n \in 0..MaxFunctions}

InitComplexity ==
    /\ \E funcs \in SampleFunctions :
          tree = <<[EmptyFile(<<>>, f_a_py) EXCEPT !.ast = [ok |-> TRUE, funcs |-> funcs]]>>
    /\ listing = [ok |-> TRUE, dirs |-> {}]
    /\ on_progress = "none"
    /\ brain_client = FALSE
    /\ hash_order = "forward"
    /\ Start

\* analyze() up to the complexity analysis.
NextComplexity ==
    \/ LogStep
    \/ Layer1
    \/ Layer2
    \/ Layer3
    \/ Layer5
    \/ Layer8
    \/ Layer9

SpecComplexity == InitComplexity /\ [][NextComplexity]_vars

\* The decision nodes the claim lists.
ClaimedDecisionKinds ==
    {"If", "For", "While", "ExceptHandler", "With", "And", "Or", "Assert"}

\* 1 plus the number of decision nodes in the subtree of function i: in
\* its own body and in the bodies of the functions nested in it.
ClaimedComplexity(funcs, i) ==
    1 + Cardinality({jk \in UNION {{<<j, k>> : k \in DOMAIN funcs[j].body} :
                                      j \in DOMAIN funcs} :
                        /\ InSubtree(funcs, i, jk[1])
                        /\ funcs[jk[1]].body[jk[2]] \in ClaimedDecisionKinds})

\* How often a node kind occurs in a body.
Occurrences(body, kinds) == Cardinality({k \in DOMAIN body : body[k] \in kinds})

\* C13: the complexity computed for every parsed function is 1 plus the
\* number of decision nodes (if, for, while, except handler, with, boolean
\* and/or, assert) in its subtree, as the results show it: the count of
\* functions, their average, and the functions above 10 with their
\* complexity; a lone function without a decision construct has complexity
\* 1, one with exactly one if, one loop and one boolean-or has 4.
C13_ComplexityCountsDecisionNodes ==
    "layer9" \in Range(history.steps) =>
        LET funcs == tree[1].ast.funcs
            n == Len(funcs)
            claimed == [i \in 1..n |-> ClaimedComplexity(funcs, i)]
            above == SelectSeq([i \in 1..n |-> i], LAMBDA i : claimed[i] > 10)
            results == self.complexity_results
        IN  /\ results.total_functions_scanned = n
            /\ results.average_complexity_x100 =
                   IF n = 0 THEN 0 ELSE RoundHundredths(SumSeq(claimed), n)
            /\ Len(results.critical_functions) = Len(above)
            /\ \A k \in DOMAIN above :
                  /\ results.critical_functions[k].function = funcs[above[k]].name
                  /\ results.critical_functions[k].complexity = claimed[above[k]]
            /\ (n = 1 /\ Occurrences(funcs[1].body, ClaimedDecisionKinds) = 0) =>
                   results.average_complexity_x100 = 100
            /\ (/\ n = 1
                /\ Occurrences(funcs[1].body, {"If"}) = 1
                /\ Occurrences(funcs[1].body, {"For", "While"}) = 1
                /\ Occurrences(funcs[1].body, {"Or"}) = 1
                /\ Occurrences(funcs[1].body, ClaimedDecisionKinds) = 3) =>
                   results.average_complexity_x100 = 400

\* The analysis has run over a function with one if, one loop and one
\* boolean-or that holds a nested function with eleven ifs: the outer
\* function counts 15, the inner one 12.
C13_Witness ==
    /\ "layer9" \in Range(history.steps)
    /\ Len(tree[1].ast.funcs) = 2
    /\ tree[1].ast.funcs[2].parent = 1
    /\ tree[1].ast.funcs[1].body = <<"If", "For", "Or">>
    /\ Len(self.complexity_results.critical_functions) = 2
    /\ self.complexity_results.critical_functions[1].complexity = 15
    /\ self.complexity_results.critical_functions[2].complexity = 12

(***************************************************************************)
(* The duplication scan over one source file that holds a block of six     *)
(* distinct lines twice, among up to MaxOtherLines other lines, all        *)
(* distinct: analyze() up to layer 10.                                     *)
(***************************************************************************)
\* Six lines of one character each, and six lines of one to six times the
\* same character.
PowerLines == [k \in 1..chunk_size |-> [c \in 1..k |-> "x"]]

Blocks == {SixLines, PowerLines}

OtherLines == {<<"p">>, <<"q">>, <<"r">>}

\* The files: lines before the first copy, between the copies and after
\* the second, no line of them occurring twice.
BlockFiles ==
    {pre \o block \o mid \o block \o post :
        block \in Blocks,
        pre \in {<<>>} \cup {<<l>> : l \in OtherLines},
        mid \in {<<>>} \cup {<<l>> : l \in OtherLines},
        post \in {<<>>} \cup {<<l>> : l \in OtherLines}}

\* The line occurs once in the file, or is a line of the block and occurs
\* twice.
OtherwiseDistinct(lines) ==
    \A i, j \in DOMAIN lines :
        (i < j /\ lines[i] = lines[j]) =>
            \E b \in Blocks, k \in 1..chunk_size :
                /\ lines[i] = b[k]
                /\ Cardinality({n \in DOMAIN lines : lines[n] = lines[i]}) = 2

InitBlock ==
    /\ \E lines \in BlockFiles :
          /\ OtherwiseDistinct(lines)
          /\ Len(lines) <= 2 * chunk_size + MaxOtherLines
          /\ tree = <<[EmptyFile(<<>>, f_a_py) EXCEPT !.lines = lines]>>
    /\ listing = [ok |-> TRUE, dirs |-> {}]
    /\ on_progress = "none"
    /\ brain_client = FALSE
    /\ hash_order = "forward"
    /\ Start

SpecBlock == InitBlock /\ [][NextDup]_vars

\* C14: for a file of otherwise distinct lines that holds one block of six
\* distinct lines exactly twice, adjacent or apart, the duplication scan
\* records exactly one duplicated digest, with 2 occurrences, and reports
\* duplication_ratio = round(6 / total_lines * 100, 2).
C14_OneClusterOfTwo ==
    "layer10" \in Range(history.steps) =>
        LET results == self.duplication_results
        IN  /\ results.total_lines_scanned = Len(tree[1].lines)
            /\ Len(results.top_clusters) = 1
            /\ results.top_clusters[1].occurrences = 2
            /\ results.duplication_ratio_x100 =
                   RoundHundredths(chunk_size * 100, results.total_lines_scanned)

(***************************************************************************)
(* The SecOps audit over an .env file that names up to MaxDomains          *)
(* candidate domains, one of them twice, next to allow-listed names and a  *)
(* name past the prefix the audit reads.                                   *)
(***************************************************************************)
d_c_io == <<"c", ".", "i", "o">>
d_d_io == <<"d", ".", "i", "o">>
d_e_io == <<"e", ".", "i", "o">>
d_z_io == <<"z", ".", "i", "o">>

CandidateNames == <<d_a_io, d_b_io, d_c_io, d_d_io, d_e_io>>

\* The matches of the domain pattern in the file, in text order.
ProbeDomains(n) ==
    <<Match(d_api_github_com, 15)>>
    \o [i \in 1..n |-> Match(CandidateNames[i], 20 * i + 20)]
    \o <<Match(d_a_io, 200), Match(d_localhost, 220), Match(d_z_io, 10004)>>

InitProbe ==
    /\ \E n \in 0..MaxDomains :
          tree = <<[EmptyFile(<<>>, f_env) EXCEPT !.domains = ProbeDomains(n)]>>
    /\ listing = [ok |-> TRUE, dirs |-> {}]
    /\ on_progress = "none"
    /\ brain_client = FALSE
    /\ hash_order = "forward"
    /\ Start

SpecProbe == InitProbe /\ [][Next]_vars

\* The TLS connection attempts of the run: the domains, in probe order, and
\* what each attempt ended in.
Probes == history.answers[1]

\* The domain names the files of the tree hold.
NamedDomains == UNION {{tree[k].domains[i].text : i \in DOMAIN tree[k].domains} : k \in DOMAIN tree}

\* C15: the SecOps audit attempts a TLS connection for at most 3 domains
\* per run, each once, however many candidate domains the files hold, and
\* for no domain that contains an allow-listed name.
C15_AtMostThreeProbes ==
    "layer11" \in Range(history.steps) =>
        /\ Len(Probes.probed) <= 3
        /\ \A i, j \in DOMAIN Probes.probed : i # j => Probes.probed[i] # Probes.probed[j]
        /\ \A i \in DOMAIN Probes.probed :
              /\ Probes.probed[i] \in NamedDomains
              /\ ~\E name \in exempt_domains : Contains(name, Probes.probed[i])

\* The audit has run over a file that names four candidate domains and two
\* allow-listed ones, and has probed three.
C15_Witness ==
    /\ "layer11" \in Range(history.steps)
    /\ Cardinality({d \in NamedDomains :
                       ~\E name \in exempt_domains : Contains(name, d)}) >= 4
    /\ \E d \in NamedDomains : Contains(d_github_com, d)
    /\ Len(Probes.probed) = 3

\* The status entries of a domain in monitored_domains.
StatusEntries(d) ==
    {i \in DOMAIN self.secops_results.monitored_domains :
        self.secops_results.monitored_domains[i].domain = d}

\* C16: a domain whose TLS probe fails has a status entry and no Finding,
\* the domains after it are probed all the same (every probed domain has
\* exactly one status entry), and analyze() goes on.
C16_FailedProbeIsAStatusEntry ==
    "layer11" \in Range(history.steps) =>
        /\ status # "raised"
        /\ \A i \in DOMAIN Probes.probed :
              LET d == Probes.probed[i]
              IN  /\ Cardinality(StatusEntries(d)) = 1
                  /\ Probes.outcome[d] = "exception" =>
                        /\ \A k \in StatusEntries(d) :
                              self.secops_results.monitored_domains[k].status
                                  = "Unreachable/Private"
                        /\ ~\E k \in DOMAIN self.security_findings :
                              self.security_findings[k].description = d
        /\ Len(self.secops_results.monitored_domains) = Len(Probes.probed)

\* analyze() has returned after a run whose first probe failed and whose
\* later probes found one certificate expiring and one healthy.
C16_Witness ==
    /\ status = "returned"
    /\ Len(Probes.probed) = 3
    /\ Probes.outcome[Probes.probed[1]] = "exception"
    /\ Probes.outcome[Probes.probed[2]] = "expiring"
    /\ Probes.outcome[Probes.probed[3]] = "valid"
    /\ Len(self.security_findings) = 1

(***************************************************************************)
(* Runs over degraded repositories: empty, with files in excluded          *)
(* directories only, with an unreadable file, with a root directory whose  *)
(* listing fails.                                                          *)
(***************************************************************************)
DegradedFiles ==
    {[EmptyFile(<<s_venv>>, f_a_py) EXCEPT !.hits = {Hit("Private Key", 30)}],
     [EmptyFile(<<s_node_modules>>, f_a_py) EXCEPT !.hits = {Hit("Insecure eval()", 40)}],
     [EmptyFile(<<s_git>>, f_a_py) EXCEPT !.hits = {Hit("AWS Access Key", 20)}],
     [EmptyFile(<<s_src>>, f_a_py) EXCEPT
         !.readable = FALSE,
         !.hits = {Hit("AWS Access Key", 20)}]}

InitDegraded ==
    /\ tree \in Trees(DegradedFiles, MaxFiles)
    /\ listing \in {[ok |-> TRUE, dirs |-> TopSegments(tree)],
                    [ok |-> FALSE, dirs |-> TopSegments(tree)]}
    /\ on_progress = "none"
    /\ brain_client \in BOOLEAN
    /\ hash_order = "forward"
    /\ Start

SpecDegraded == InitDegraded /\ [][Next]_vars

\* The keys the spec gives the report.
ReportKeys ==
    {"static_scan", "structural_evaluation", "architectural_critique", "overall_score",
     "maturity_label", "score_breakdown", "security_findings", "complexity",
     "duplication", "dependency_graph", "logs"}

\* C17: the report analyze() returns has every key of the spec, the
\* dependency graph with nodes and links, and none of them holds None.
C17_ReportFullyPopulated ==
    status = "returned" =>
        LET report == reports[Len(reports)].value
        IN  /\ ReportKeys \subseteq DOMAIN report
            /\ {"nodes", "links"} \subseteq DOMAIN report.dependency_graph
            /\ {"stack", "categories", "standards", "testing"} \subseteq DOMAIN report.static_scan
            /\ {"patterns_detected", "modularity_score", "concerns_separation"}
                   \subseteq DOMAIN report.structural_evaluation
            /\ report.architectural_critique # NullSummary
            /\ report.overall_score \in 0..100
            /\ report.maturity_label \in {"Basic", "Intermediate", "Production", "Enterprise"}

\* C18: for a repository that is empty or whose files all lie in excluded
\* directories, the computed score breakdown has infrastructure = 0 and
\* standards_tests = 0, the three penalties are 0, and the label is
\* 'Basic'.
C18_EmptyRepositoryScoresBasic ==
    ("score" \in Range(history.steps)
     /\ \A k \in DOMAIN tree : InExcludedDirectory(tree[k])) =>
        /\ self.score_breakdown.infrastructure = 0
        /\ self.score_breakdown.standards_tests = 0
        /\ self.score_breakdown.security = 0
        /\ self.score_breakdown.complexity = 0
        /\ self.score_breakdown.duplication = 0
        /\ self.maturity_label = "Basic"

\* C19: when listing the root directory fails, the structural evaluation
\* completes with patterns_detected empty, modularity_score 0 and the
\* separation label 'Unknown', and the architecture term of the score is 0.
C19_ListingFailureGivesDefaults ==
    ("layer2" \in Range(history.steps) /\ ~listing.ok) =>
        /\ self.structural_findings.patterns_detected = <<>>
        /\ self.structural_findings.modularity_score = 0
        /\ self.structural_findings.concerns_separation = "Unknown"
        /\ "score" \in Range(history.steps) => self.score_breakdown.architecture = 0

(***************************************************************************)
(* The stored breakdown against the stored score.                          *)
(***************************************************************************)
\* The sum of the six terms of self.score_breakdown.
BreakdownSum(b) ==
    b.infrastructure + b.standards_tests + b.architecture
    + b.security + b.complexity + b.duplication

\* C21: after _calculate_final_score, overall_score equals the sum of the
\* six stored score_breakdown terms clamped to [0,100]; infrastructure is
\* 0, 15 or 30, standards_tests is in 0..30, architecture is in 0..40, and
\* the security, complexity and duplication terms are each <= 0.
C21_ScoreIsClampedBreakdownSum ==
    pc = ScorePc + 1 =>
        LET b == self.score_breakdown
            sum == BreakdownSum(b)
        IN  /\ self.overall_score = IF sum < 0 THEN 0 ELSE IF sum > 100 THEN 100 ELSE sum
            /\ b.infrastructure \in {0, 15, 30}
            /\ b.standards_tests \in 0..30
            /\ b.architecture \in 0..40
            /\ b.security <= 0
            /\ b.complexity <= 0
            /\ b.duplication <= 0

\* The score has been computed with each of the three penalties deducted
\* and a positive score left; and with a sum below zero.
C21_Witness ==
    /\ pc = ScorePc + 1
    /\ self.score_breakdown.security < 0
    /\ self.score_breakdown.complexity < 0
    /\ self.score_breakdown.duplication < 0
    /\ self.score_breakdown.infrastructure = 30
    /\ self.score_breakdown.standards_tests = 30
    /\ self.overall_score = BreakdownSum(self.score_breakdown)
    /\ self.overall_score > 0

(***************************************************************************)
(* Runs over trees that hold unreadable and unparsable files next to       *)
(* files that import them, repeat their lines and share their stack.       *)
(***************************************************************************)
s_b == <<"b">>
s_a == <<"a">>

IsolationFiles ==
    {[EmptyFile(<<>>, f_a_py) EXCEPT
         !.hits = {Hit("AWS Access Key", 20), Hit("numpy", 60)},
         !.lines = SixLines,
         !.ast = [ok |-> TRUE, funcs |-> <<Function("f", 0, <<"If", "For">>)>>],
         !.imports = <<Import(s_b, 10)>>],
     EmptyFile(<<s_src>>, f_b_py)}
    \cup
    {[EmptyFile(<<>>, f_b_py) EXCEPT
         !.readable = readable,
         !.hits = {Hit("Insecure eval()", 40), Hit("pandas", 80)},
         !.lines = SixLines,
         !.ast = [ok |-> parses, funcs |-> <<Function("g", 0, <<"While">>)>>],
         !.imports = <<Import(s_a, 10)>>] : readable, parses \in BOOLEAN}
    \cup
    {[EmptyFile(<<>>, f_nginx_conf) EXCEPT !.readable = readable] : readable \in BOOLEAN}

InitIsolation ==
    /\ tree \in Trees(IsolationFiles, MaxIsolationFiles)
    /\ listing = [ok |-> TRUE, dirs |-> TopSegments(tree)]
    /\ on_progress = "none"
    /\ brain_client = FALSE
    /\ hash_order = "forward"
    /\ Start

SpecIsolation == InitIsolation /\ [][Next]_vars

\* The files open() succeeds on, and those of them ast.parse accepts.
ReadableFiles(files) == SelectSeq(files, LAMBDA f : f.readable)
ParsableFiles(files) == SelectSeq(files, LAMBDA f : f.readable /\ f.ast.ok)

Paths(files) == {RelPath(files[i]) : i \in DOMAIN files}

\* A graph's links as <<source path, target path>>, for the links whose
\* source is one of `paths`.
LinksByPath(graph, paths) ==
    LET path(id) == graph.nodes[id + 1].path
        from == SelectSeq(graph.links, LAMBDA l : path(l.source) \in paths)
    IN  [i \in 1..Len(from) |-> <<path(from[i].source), path(from[i].target)>>]

\* A graph's node paths in order, for the nodes among `paths`.
NodesByPath(graph, paths) ==
    LET kept == SelectSeq(graph.nodes, LAMBDA n : n.path \in paths)
    IN  [i \in 1..Len(kept) |-> kept[i].path]

\* C22: with any files of the tree unreadable or unparsable, analyze()
\* does not raise, and what each layer reports for the remaining files is
\* what it reports for the tree without the bad files: the findings, the
\* stack entries (they name no file: every entry the remaining files give
\* is there), the functions counted, the duplicate windows, and the graph
\* nodes and links of the remaining files (compared by path).
C22_BadFilesAreAsIfAbsent ==
    /\ status # "raised"
    /\ status = "returned" =>
          LET report == reports[Len(reports)].value
              good == ReadableFiles(tree)
              without == Layer7Graph(good)
          IN  /\ report.security_findings = Layer5Scan(good) \o Layer8Audit(good)
              /\ Range(Layer1Results(good, listing, hash_order).stack)
                     \subseteq Range(report.static_scan.stack)
              /\ report.complexity = Layer9Results(ParsableFiles(tree))
              /\ report.duplication = Layer10Results(good)
              /\ NodesByPath(report.dependency_graph, Paths(good))
                     = NodesByPath(without, Paths(good))
              /\ LinksByPath(report.dependency_graph, Paths(good))
                     = LinksByPath(without, Paths(good))

(***************************************************************************)
(* The complexity analysis over files of many functions, with complexities *)
(* on both sides of the two thresholds: analyze() up to layer 9.           *)
(***************************************************************************)
\* A body of n `if` statements.
Ifs(n) == [k \in 1..n |-> "If"]

\* The complexities the functions of a file take in turn.
ComplexityCycle == <<1, 11, 10, 21, 20>>

\* n top-level functions, named by their position, the first one at
\* `shift` in the cycle.
CycleFunctions(n, shift) ==
    [i \in 1..n |->
        Function(ToString(i), 0,
                 Ifs(ComplexityCycle[((i + shift) % Len(ComplexityCycle)) + 1] - 1))]

InitFlagged ==
    /\ \E n \in 0..MaxFlaggedFunctions, shift \in 0..(Len(ComplexityCycle) - 1),
          more \in {0, 3} :
          tree = <<[EmptyFile(<<>>, f_a_py) EXCEPT
                       !.ast = [ok |-> TRUE, funcs |-> CycleFunctions(n, shift)]],
                   [EmptyFile(<<>>, f_b_py) EXCEPT
                       !.ast = [ok |-> TRUE, funcs |-> CycleFunctions(more, shift)]]>>
    /\ listing = [ok |-> TRUE, dirs |-> {}]
    /\ on_progress = "none"
    /\ brain_client = FALSE
    /\ hash_order = "forward"
    /\ Start

SpecFlagged == InitFlagged /\ [][NextComplexity]_vars

\* The functions of the tree's files in discovery order: [file, function,
\* complexity], the complexity as claim C13 defines it.
RECURSIVE DiscoveredFunctions(_)
DiscoveredFunctions(files) ==
    IF files = <<>> THEN <<>>
    ELSE LET f == Head(files)
         IN  [i \in 1..Len(f.ast.funcs) |->
                 [file |-> RelPath(f), function |-> f.ast.funcs[i].name,
                  complexity |-> ClaimedComplexity(f.ast.funcs, i)]]
             \o DiscoveredFunctions(Tail(files))

\* C23: in the complexity report a function is listed iff its complexity
\* is above 10, with severity HIGH iff it is above 20 and MEDIUM otherwise;
\* the list holds only the first 10 flagged functions in discovery order;
\* total_functions_scanned and average_complexity are computed over all
\* the functions scanned, flagged or not and beyond the cap.
C23_FlaggedListAndAggregate ==
    "layer9" \in Range(history.steps) =>
        LET all == DiscoveredFunctions(tree)
            above == SelectSeq(all, LAMBDA fn : fn.complexity > 10)
            results == self.complexity_results
            listed == results.critical_functions
        IN  /\ Len(listed) = IF Len(above) > 10 THEN 10 ELSE Len(above)
            /\ \A k \in DOMAIN listed :
                  /\ listed[k].file = above[k].file
                  /\ listed[k].function = above[k].function
                  /\ listed[k].complexity = above[k].complexity
                  /\ listed[k].complexity > 10
                  /\ listed[k].severity = "HIGH" <=> listed[k].complexity > 20
                  /\ listed[k].severity = "MEDIUM" <=> listed[k].complexity <= 20
            /\ results.total_functions_scanned = Len(all)
            /\ results.average_complexity_x100 =
                   IF Len(all) = 0 THEN 0
                   ELSE RoundHundredths(SumSeq([i \in 1..Len(all) |-> all[i].complexity]),
                                        Len(all))

\* The analysis has run over more than 10 flagged functions, of both
\* severities and at both thresholds, between unflagged ones: the list
\* holds 10 and the count holds them all.
C23_Witness ==
    /\ "layer9" \in Range(history.steps)
    /\ LET all == DiscoveredFunctions(tree)
       IN  /\ Len(SelectSeq(all, LAMBDA fn : fn.complexity > 10)) > 10
           /\ \E i \in DOMAIN all : all[i].complexity = 10
           /\ \E i \in DOMAIN all : all[i].complexity = 20
           /\ self.complexity_results.total_functions_scanned = Len(all)
    /\ Len(self.complexity_results.critical_functions) = 10
    /\ \E k \in 1..10 : self.complexity_results.critical_functions[k].severity = "HIGH"
    /\ \E k \in 1..10 : self.complexity_results.critical_functions[k].complexity = 11
    /\ self.complexity_results.total_functions_scanned > 10

(***************************************************************************)
(* The complexity analysis over one Python file whose functions are nested *)
(* in one another up to MaxNestedFunctions deep: analyze() up to layer 9.  *)
(***************************************************************************)
NestedBodies ==
    {<<>>,
     <<"If", "For", "Or">>,
     <<"If", "If", "If", "If", "If", "If", "If", "If", "If", "If", "If">>}

NestedFunctions ==
    UNION {{[i \in 1..n |-> Function(FunctionNames[i], parent[i], body[i])] :
               parent \in {p \in [1..n -> 0..n] : \A i \in 1..n : p[i] < i},
               body \in [1..n -> NestedBodies]} :
           n \in 0..MaxNestedFunctions}

InitNested ==
    /\ \E funcs \in NestedFunctions :
          tree = <<[EmptyFile(<<>>, f_a_py) EXCEPT !.ast = [ok |-> TRUE, funcs |-> funcs]]>>
    /\ listing = [ok |-> TRUE, dirs |-> {}]
    /\ on_progress = "none"
    /\ brain_client = FALSE
    /\ hash_order = "forward"
    /\ Start

SpecNested == InitNested /\ [][NextComplexity]_vars

\* The decision nodes counted toward function i: those of its own body,
\* and once more those counted toward each function defined directly in it.
RECURSIVE CountedToward(_, _)
CountedToward(funcs, i) ==
    Occurrences(funcs[i].body, ClaimedDecisionKinds)
    + SumSeq([j \in 1..Len(funcs) |->
                 IF funcs[j].parent = i THEN CountedToward(funcs, j) ELSE 0])

\* C24: for a function g defined inside a function f, every decision node
\* of g is counted toward g and again toward f and every further enclosing
\* function, so complexity(f) >= complexity(g); f and g are counted as
\* separate functions in total_functions_scanned and in the average.
C24_NestedFunctionsCountTwice ==
    "layer9" \in Range(history.steps) =>
        LET funcs == tree[1].ast.funcs
            n == Len(funcs)
            complexity == [i \in 1..n |-> 1 + CountedToward(funcs, i)]
            above == SelectSeq([i \in 1..n |-> i], LAMBDA i : complexity[i] > 10)
            results == self.complexity_results
        IN  /\ \A f, g \in 1..n :
                  (g # f /\ InSubtree(funcs, f, g)) =>
                      /\ complexity[f] >= complexity[g]
                      /\ complexity[f] - Occurrences(funcs[f].body, ClaimedDecisionKinds)
                             >= complexity[g]
            /\ results.total_functions_scanned = n
            /\ results.average_complexity_x100 =
                   IF n = 0 THEN 0 ELSE RoundHundredths(SumSeq(complexity), n)
            /\ Len(results.critical_functions) = Len(above)
            /\ \A k \in DOMAIN above :
                  /\ results.critical_functions[k].function = funcs[above[k]].name
                  /\ results.critical_functions[k].complexity = complexity[above[k]]

\* The analysis has run over h (eleven ifs) defined in g (an if, a loop, an
\* or) defined in f (the same): h counts 12, g 15 and f 18, and the three
\* are counted as three functions averaging 15.
C24_Witness ==
    /\ "layer9" \in Range(history.steps)
    /\ Len(tree[1].ast.funcs) = 3
    /\ tree[1].ast.funcs[2].parent = 1
    /\ tree[1].ast.funcs[3].parent = 2
    /\ self.complexity_results.total_functions_scanned = 3
    /\ self.complexity_results.average_complexity_x100 = 1500
    /\ Len(self.complexity_results.critical_functions) = 3
    /\ self.complexity_results.critical_functions[1].complexity = 18
    /\ self.complexity_results.critical_functions[2].complexity = 15
    /\ self.complexity_results.critical_functions[3].complexity = 12

(***************************************************************************)
(* The structural evaluation over roots of up to MaxRootDirs child         *)
(* directories, hidden ones among them: analyze() up to layer 2.           *)
(***************************************************************************)
s_vscode == <<".", "v", "s", "c", "o", "d", "e">>
s_docs == <<"d", "o", "c", "s">>
s_tests == <<"t", "e", "s", "t", "s">>
s_scripts == <<"s", "c", "r", "i", "p", "t", "s">>

\* The names the root's child directories are drawn from.
RootDirNames ==
    <<s_git, s_services, s_github, s_src, s_docs, s_tests, s_scripts, s_node_modules,
      s_core, s_db, s_vscode, s_venv, s_apps, s_api>>

InitStructure ==
    /\ tree = <<>>
    /\ \E dirs \in SUBSET {RootDirNames[i] : i \in 1..MaxRootDirs}, ok \in BOOLEAN :
          listing = [ok |-> ok, dirs |-> dirs]
    /\ on_progress = "none"
    /\ brain_client = FALSE
    /\ hash_order = "forward"
    /\ Start

\* analyze() up to the structural evaluation.
NextStructure ==
    \/ LogStep
    \/ Layer1
    \/ Layer2

SpecStructure == InitStructure /\ [][NextStructure]_vars

\* What the claim gives for n directories.
ClaimedModularity(n, struct) ==
    /\ struct.modularity_score = IF n > 5 THEN 80 ELSE IF n > 2 THEN 50 ELSE 20
    /\ struct.concerns_separation =
           IF n > 5 THEN "High (Modularized)"
           ELSE IF n > 2 THEN "Moderate" ELSE "Low (Monolithic)"

Microservices(struct) ==
    "Microservices / Multi-Repo Layout" \in Range(struct.patterns_detected)

f_b_txt == <<"b", ".", "t", "x", "t">>
t_src_b == <<"s", "r", "c", ".", "b">>
t_zz == <<"z", "z">>

GraphFiles ==
    {[EmptyFile(<<>>, f_a_py) EXCEPT
         !.imports = <<Import(s_b, 10), Import(t_zz, 40), Import(s_a, 10020)>>],
     [EmptyFile(<<>>, f_b_py) EXCEPT !.imports = <<Import(s_b, 10), Import(s_a, 30)>>],
     EmptyFile(<<>>, f_b_txt),
     [EmptyFile(<<s_src>>, f_a_py) EXCEPT !.imports = <<Import(s_a, 10)>>],
     [EmptyFile(<<s_src>>, f_b_py) EXCEPT
         !.imports = <<Import(t_src_b, 10), Import(s_b, 50)>>]}

InitGraph ==
    /\ tree \in Trees(GraphFiles, MaxGraphFiles)
    /\ listing = [ok |-> TRUE, dirs |-> TopSegments(tree)]
    /\ on_progress = "none"
    /\ brain_client = FALSE
    /\ hash_order = "forward"
    /\ Start

SpecGraph == InitGraph /\ [][Next]_vars

\* The token with "." replaced by the path separator.
SeparatorNormalized(token) ==
    [i \in 1..Len(token) |-> IF token[i] = "." THEN "/" ELSE token[i]]

\* The tree's file with a given relative path.
FileAt(path) == tree[CHOOSE i \in DOMAIN tree : RelPath(tree[i]) = path]

\* The import tokens extracted from a node's file: those matched within the
\* 10000 characters read.
ExtractedTokens(node) ==
    LET found == SelectSeq(FileAt(node.path).imports, LAMBDA m : m.end <= 10000)
    IN  [i \in 1..Len(found) |-> found[i].target]

\* The ids of the nodes, among `nodes`, whose path contains the normalized
\* token.
Containing(nodes, token) ==
    {nodes[k].id : k \in {j \in DOMAIN nodes :
                            Contains(SeparatorNormalized(token), nodes[j].path)}}

\* The links of all nodes in discovery order, each import match giving the
\* link to the first node, the importing one apart, whose path contains
\* the token, or none.
RECURSIVE LinksOfMatches(_, _, _)
LinksOfMatches(nodes, k, m) ==
    IF k > Len(nodes) THEN <<>>
    ELSE IF m > Len(ExtractedTokens(nodes[k]))
    THEN LinksOfMatches(nodes, k + 1, 1)
    ELSE LET ids == Containing(nodes, ExtractedTokens(nodes[k])[m]) \ {nodes[k].id}
         IN  (IF ids = {} THEN <<>>
              ELSE <<[source |-> nodes[k].id,
                      target |-> CHOOSE t \in ids : \A u \in ids : t <= u,
                      value |-> 1]>>)
             \o LinksOfMatches(nodes, k, m + 1)

\* C26: each import match extracted from a source file gives at most one
\* link; the source file itself is never the target (no link has source ==
\* target), and the target is the first node in discovery order, the
\* source's own node apart, whose relative path contains the
\* separator-normalized token; when no such path contains the token no
\* link is added.
C26_FirstContainingNode ==
    "layer7" \in Range(history.steps) =>
        LET graph == self.dependency_graph
        IN  /\ graph.links = LinksOfMatches(graph.nodes, 1, 1)
            /\ \A i \in DOMAIN graph.links : graph.links[i].source # graph.links[i].target

\* The graph has been built for a file whose own path contains the token
\* it imports and comes before another node whose path contains it: the
\* link goes to the later node.
C26_Witness ==
    /\ "layer7" \in Range(history.steps)
    /\ \E i \in DOMAIN self.dependency_graph.links :
          LET l == self.dependency_graph.links[i]
              nodes == self.dependency_graph.nodes
          IN  /\ l.source < l.target
              /\ \E m \in DOMAIN FileAt(nodes[l.source + 1].path).imports :
                    LET token == FileAt(nodes[l.source + 1].path).imports[m].target
                    IN  /\ l.source \in Containing(nodes, token)
                        /\ l.target \in Containing(nodes, token)
                        /\ \A t \in Containing(nodes, token) : t >= l.source

(***************************************************************************)
(* Runs over trees of up to MaxGraphNodes source files in the root, each   *)
(* importing up to three of the others: more nodes than the 50 and more    *)
(* links than the 100 the graph returns.                                   *)
(***************************************************************************)
Digits == <<"0", "1", "2", "3", "4", "5", "6", "7", "8", "9">>

RECURSIVE Decimal(_)
\* str(i) for i >= 0.
Decimal(i) ==
    IF i < 10 THEN <<Digits[i + 1]>>
    ELSE Decimal(i \div 10) \o <<Digits[(i % 10) + 1]>>

\* The module name "m<i>" and its file "m<i>.py".
ModuleName(i) == <<"m">> \o Decimal(i)

\* The modules file i of n imports, in text order: the i-th from the end,
\* the next one, and a further one.
ModuleImports(i, n, k) ==
    LET targets == <<n + 1 - i, (i % n) + 1, ((i * 7) % n) + 1>>
    IN  [j \in 1..k |-> Import(ModuleName(targets[j]), 20 * j)]

\* n files m1.py .. mn.py, each with k imports.
ModuleFiles(n, k) ==
    [i \in 1..n |->
        [EmptyFile(<<>>, ModuleName(i) \o x_py) EXCEPT !.imports = ModuleImports(i, n, k)]]

InitLargeGraph ==
    /\ \E n \in {0, 1, 2} \cup ((MaxGraphNodes - 3)..MaxGraphNodes), k \in 0..3 :
          tree = ModuleFiles(n, k)
    /\ listing = [ok |-> TRUE, dirs |-> {}]
    /\ on_progress = "none"
    /\ brain_client = FALSE
    /\ hash_order = "forward"
    /\ Start

SpecLargeGraph == InitLargeGraph /\ [][Next]_vars

\* C27: the dependency graph returned has at most 50 nodes and at most 100
\* links: exactly the first 50 nodes and the first 100 links of the full
\* computed sets, in discovery order; node ids are distinct and equal each
\* node's discovery index; the two cuts are independent, so every returned
\* link keeps the ids of the full node set, in the returned node list or
\* not.
C27_IndependentTruncation ==
    "layer7" \in Range(history.steps) =>
        LET graph == self.dependency_graph
            all_nodes == Layer7Nodes(tree)
            all_links == Layer7Links(Layer7Sources(tree), 1)
        IN  /\ Len(graph.nodes) = IF Len(all_nodes) > 50 THEN 50 ELSE Len(all_nodes)
            /\ Len(graph.links) = IF Len(all_links) > 100 THEN 100 ELSE Len(all_links)
            /\ \A i \in DOMAIN graph.nodes :
                  /\ graph.nodes[i] = all_nodes[i]
                  /\ graph.nodes[i].id = i - 1
                  /\ graph.nodes[i].path = RelPath(tree[i])
            /\ \A i, j \in DOMAIN graph.nodes :
                  i # j => graph.nodes[i].id # graph.nodes[j].id
            /\ \A i \in DOMAIN graph.links :
                  /\ graph.links[i] = all_links[i]
                  /\ graph.links[i].source \in 0..(Len(all_nodes) - 1)
                  /\ graph.links[i].target \in 0..(Len(all_nodes) - 1)

\* The graph has been cut to 50 of more nodes and 100 of more links, and a
\* returned link names a node that is not returned.
C27_Witness ==
    /\ "layer7" \in Range(history.steps)
    /\ Len(tree) > 50
    /\ Len(Layer7Links(Layer7Sources(tree), 1)) > 100
    /\ Len(self.dependency_graph.nodes) = 50
    /\ Len(self.dependency_graph.links) = 100
    /\ \E i \in DOMAIN self.dependency_graph.links :
          self.dependency_graph.links[i].target >= 50

(***************************************************************************)
(* The heuristic critique against the score of the run (checked under      *)
(* Spec).                                                                  *)
(***************************************************************************)
\* The summary text the claim gives for a score.
ClaimedVariant(score) ==
    IF score > 80 THEN "exceptionally well-structured"
    ELSE IF score > 50 THEN "solid baseline"
    ELSE "early stages"

\* C28: when the AI step is skipped, the executive summary that a run's
\* report holds in architectural_critique is the variant its overall_score
\* selects: 'exceptionally well-structured' iff the score is above 80,
\* 'solid baseline' iff it is in 51..80, 'early stages' otherwise.
C28_SummaryFollowsFinalScore ==
    (status = "returned" /\ ~brain_client) =>
        LET report == reports[Len(reports)].value
        IN  report.architectural_critique.variant = ClaimedVariant(report.overall_score)

(***************************************************************************)
(* Which windows the duplication scan takes for the same (checked under    *)
(* SpecBlock).                                                             *)
(***************************************************************************)
\* The six normalized lines of the window of the tree's file that starts
\* at line i.
WindowLines(i) == SubSeq(NormalizedLines(tree[1].lines), i, i + chunk_size - 1)

WindowStarts == 1..(Len(NormalizedLines(tree[1].lines)) - chunk_size + 1)

\* C29: two 6-line windows are recorded under the same digest iff their
\* six normalized lines are equal line by line: every reported cluster
\* holds exactly the windows whose lines equal those of its first window,
\* there is one cluster for each sequence of six lines that occurs more
\* than once, and windows that differ in their lines but not in their
\* concatenated text are not counted as duplicates.
C29_SameDigestIffSameLines ==
    "layer10" \in Range(history.steps) =>
        LET clusters == self.duplication_results.top_clusters
            repeated == {WindowLines(i) : i \in
                            {j \in WindowStarts :
                                \E k \in WindowStarts :
                                    k # j /\ WindowLines(k) = WindowLines(j)}}
        IN  /\ Len(clusters) = Min(TopClustersCap, Cardinality(repeated))
            /\ \A c \in DOMAIN clusters :
                  LET first == WindowLines(clusters[c].primary_location[2])
                  IN  /\ clusters[c].occurrences =
                             Cardinality({i \in WindowStarts : WindowLines(i) = first})
                      /\ \A n \in DOMAIN clusters[c].clones :
                             WindowLines(clusters[c].clones[n][2]) = first

(***************************************************************************)
(* Runs over trees of JS/TS files that import one another by relative      *)
(* module paths.                                                           *)
(***************************************************************************)
f_index_js == <<"i", "n", "d", "e", "x", ".", "j", "s">>
f_utils_js == <<"u", "t", "i", "l", "s", ".", "j", "s">>
f_helper_ts == <<"h", "e", "l", "p", "e", "r", ".", "t", "s">>
s_lib == <<"l", "i", "b">>
t_here_utils == <<".", "/", "u", "t", "i", "l", "s">>
t_here_helper == <<".", "/", "h", "e", "l", "p", "e", "r">>
t_here_lib_helper == <<".", "/", "l", "i", "b", "/", "h", "e", "l", "p", "e", "r">>
t_up_utils == <<".", ".", "/", "u", "t", "i", "l", "s">>
t_utils == <<"u", "t", "i", "l", "s">>

RelativeFiles ==
    {[EmptyFile(<<>>, f_index_js) EXCEPT
         !.imports = <<Import(t_here_utils, 30), Import(t_here_lib_helper, 70)>>],
     [EmptyFile(<<>>, f_utils_js) EXCEPT !.imports = <<Import(t_here_lib_helper, 30)>>],
     [EmptyFile(<<s_lib>>, f_helper_ts) EXCEPT
         !.imports = <<Import(t_up_utils, 30), Import(t_utils, 60)>>],
     [EmptyFile(<<s_lib>>, f_index_js) EXCEPT !.imports = <<Import(t_here_helper, 30)>>]}

InitRelative ==
    /\ tree \in Trees(RelativeFiles, MaxRelativeFiles)
    /\ listing = [ok |-> TRUE, dirs |-> TopSegments(tree)]
    /\ on_progress = "none"
    /\ brain_client = FALSE
    /\ hash_order = "forward"
    /\ Start

SpecRelative == InitRelative /\ [][Next]_vars

\* The module path is relative: it starts with "./" or "../".
IsRelative(token) == StartsWith(token, <<".", "/">>) \/ StartsWith(token, <<".", ".", "/">>)

\* The path, relative to the root, that a relative module path names when
\* imported from a file in directory `dir`, without the file extension;
\* <<>> when it leaves the root.
NamedPath(dir, token) ==
    LET up == StartsWith(token, <<".", ".", "/">>)
        rest == SubSeq(token, IF up THEN 4 ELSE 3, Len(token))
        base == IF up THEN SubSeq(dir, 1, Len(dir) - 1) ELSE dir
    IN  IF up /\ dir = <<>> THEN <<>>
        ELSE IF base = <<>> THEN rest
        ELSE RelJoin(base) \o <<"/">> \o rest

\* C30: a JS/TS import or require whose module path is relative (starts
\* with './' or '../') and names an existing source file of the tree gives
\* a link from the importing file's node to that file's node.
C30_RelativeImportIsLinked ==
    "layer7" \in Range(history.steps) =>
        LET graph == self.dependency_graph
        IN  \A s, t \in DOMAIN graph.nodes :
                \A m \in DOMAIN FileAt(graph.nodes[s].path).imports :
                    LET from == FileAt(graph.nodes[s].path)
                        token == from.imports[m].target
                    IN  (/\ from.imports[m].end <= 10000
                         /\ IsRelative(token)
                         /\ NamedPath(from.dir, token) # <<>>
                         /\ graph.nodes[t].path \in
                                {NamedPath(from.dir, token) \o ext : ext \in {x_js, x_ts, x_tsx}})
                        => \E i \in DOMAIN graph.links :
                               /\ graph.links[i].source = graph.nodes[s].id
                               /\ graph.links[i].target = graph.nodes[t].id

====
